---- MODULE Spec2Model ----
(***************************************************************************)
(* PyEmergia: the DataManager (LCI matrix, units, transformity table) and  *)
(* the EmergyCalculator (total emergy, direct-inputs sum, emergy indices)  *)
(* of src/PyEmergia.py, as a state machine.                                *)
(*                                                                         *)
(* Floats are modelled as exact rationals extended with the IEEE specials: *)
(* [n, d] with d > 0 is the finite value n/d in lowest terms; d = 0 marks  *)
(* the specials, n = 0 NaN, n = 1 +inf, n = -1 -inf.  pandas' "unset" cell *)
(* is NaN, as in the DataFrame.  Rounding of binary floats is abstracted.  *)
(* Names are sequences of one-character strings, so that strip() and       *)
(* replace() are computed and not assumed.                                 *)
(***************************************************************************)
EXTENDS Integers, Sequences, FiniteSets, TLC

\* ------------------------------------------------------------------------
\* Floats
\* ------------------------------------------------------------------------

Abs(i) == IF i < 0 THEN -i ELSE i

RECURSIVE Gcd(_, _)
Gcd(a, b) == IF b = 0 THEN a ELSE Gcd(b, a % b)

NaN    == [n |-> 0, d |-> 0]
PosInf == [n |-> 1, d |-> 0]
NegInf == [n |-> -1, d |-> 0]

\* The float n/d (d # 0), in lowest terms with a positive denominator.
Rat(n, d) ==
    LET g == Gcd(Abs(n), Abs(d))
        s == IF d < 0 THEN -1 ELSE 1
    IN  [n |-> (s * n) \div g, d |-> Abs(d) \div g]

Fin(i) == [n |-> i, d |-> 1]

IsNaN(x)    == x.d = 0 /\ x.n = 0
IsInf(x)    == x.d = 0 /\ x.n # 0
IsFinite(x) == x.d > 0
Sign(x)     == IF x.n > 0 THEN 1 ELSE IF x.n < 0 THEN -1 ELSE 0

\* x == y, x != y, x < y, x > y of Python floats: every comparison with NaN
\* is False except !=.
FEq(x, y) == ~IsNaN(x) /\ ~IsNaN(y) /\ x = y
FNe(x, y) == ~FEq(x, y)
FLt(x, y) ==
    /\ ~IsNaN(x) /\ ~IsNaN(y)
    /\ x # y
    /\ IF IsInf(x) THEN x = NegInf
       ELSE IF IsInf(y) THEN y = PosInf
       ELSE x.n * y.d < y.n * x.d
FGt(x, y) == FLt(y, x)

FAdd(x, y) ==
    IF IsNaN(x) \/ IsNaN(y) THEN NaN
    ELSE IF IsInf(x) THEN (IF IsInf(y) /\ y # x THEN NaN ELSE x)
    ELSE IF IsInf(y) THEN y
    ELSE Rat(x.n * y.d + y.n * x.d, x.d * y.d)

FMul(x, y) ==
    IF IsNaN(x) \/ IsNaN(y) THEN NaN
    ELSE IF IsInf(x) \/ IsInf(y)
         THEN (IF Sign(x) * Sign(y) = 0 THEN NaN
               ELSE IF Sign(x) * Sign(y) > 0 THEN PosInf ELSE NegInf)
    ELSE Rat(x.n * y.n, x.d * y.d)

\* x / y for y != 0 (both call sites guard the divisor; Python would raise
\* ZeroDivisionError on a zero divisor, which no call reaches).
FDiv(x, y) ==
    IF IsNaN(x) \/ IsNaN(y) THEN NaN
    ELSE IF IsInf(x) THEN (IF IsInf(y) THEN NaN
                           ELSE IF Sign(x) * Sign(y) >= 0 THEN PosInf ELSE NegInf)
    ELSE IF IsInf(y) THEN Fin(0)
    ELSE IF y.n = 0 THEN NaN
    ELSE Rat(x.n * y.d, x.d * y.n)

\* float(v): the literals the model feeds it.  A value outside the domain
\* makes float() raise ValueError ("abc", "" and " ").  A parameter that is
\* already a float is its own conversion.
FloatLiterals ==
    ("-1" :> Fin(-1)) @@ ("0" :> Fin(0)) @@ ("10" :> Fin(10))
    @@ ("25" :> Fin(25)) @@ ("50" :> Fin(50)) @@ ("100" :> Fin(100))
    @@ ("2000" :> Fin(2000)) @@ ("inf" :> PosInf) @@ ("nan" :> NaN)

ParsesAsFloat(v) == v \in DOMAIN FloatLiterals
ParseFloat(v)    == FloatLiterals[v]

\* str(v).strip() == "" for the parameter values of the model
IsBlank(v) == v \in {"", " "}

\* f"{x:.2e}": three significant digits, round-half-even on the exact value,
\* and the decimal exponent.
RECURSIVE Pow10(_)
Pow10(k) == IF k = 0 THEN 1 ELSE 10 * Pow10(k - 1)

\* the decimal exponent e of num/den > 0: 10^e <= num/den < 10^(e+1)
RECURSIVE Exp10(_, _)
Exp10(num, den) ==
    IF num >= 10 * den THEN 1 + Exp10(num, 10 * den)
    ELSE IF num < den THEN Exp10(10 * num, den) - 1
    ELSE 0

\* |x| * 10^(-e) as the pair <<numerator, denominator>>
Scaled(x, e) ==
    IF e >= 0 THEN <<Abs(x.n), x.d * Pow10(e)>>
    ELSE <<Abs(x.n) * Pow10(-e), x.d>>

RoundHalfEven(num, den) ==
    LET q == num \div den
        r == num % den
    IN  IF 2 * r < den THEN q
        ELSE IF 2 * r > den THEN q + 1
        ELSE IF q % 2 = 0 THEN q ELSE q + 1

Format2e(x) ==
    IF IsNaN(x) THEN [text |-> "nan", mant |-> 0, exp |-> 0]
    ELSE IF x = PosInf THEN [text |-> "inf", mant |-> 0, exp |-> 0]
    ELSE IF x = NegInf THEN [text |-> "-inf", mant |-> 0, exp |-> 0]
    ELSE IF x.n = 0 THEN [text |-> "num", mant |-> 0, exp |-> 0]
    ELSE LET e == Exp10(Abs(x.n), x.d)
             s == Scaled(x, e - 2)
             m == RoundHalfEven(s[1], s[2])
         IN  IF m = 1000
             THEN [text |-> "num", mant |-> Sign(x) * 100, exp |-> e + 1]
             ELSE [text |-> "num", mant |-> Sign(x) * m, exp |-> e]

\* ------------------------------------------------------------------------
\* Names and small helpers
\* ------------------------------------------------------------------------

Range(s) == {s[i] : i \in 1..Len(s)}

RECURSIVE LStrip(_)
LStrip(s) == IF s # <<>> /\ Head(s) = " " THEN LStrip(Tail(s)) ELSE s

RECURSIVE RStrip(_)
RStrip(s) ==
    IF s # <<>> /\ s[Len(s)] = " " THEN RStrip(SubSeq(s, 1, Len(s) - 1)) ELSE s

\* str.strip()
Strip(s) == RStrip(LStrip(s))

\* str.replace(a, b) for one-character a and b
Replace(s, a, b) == [i \in 1..Len(s) |-> IF s[i] = a THEN b ELSE s[i]]

\* f"transformity_{fn.replace(' ', '_').replace('.', '_')}"
ParamKey(fn) == <<"transformity_">> \o Replace(Replace(fn, " ", "_"), ".", "_")

\* [f(s[1]), ..., f(s[n])]
MapSeq(s, f(_)) == [i \in 1..Len(s) |-> f(s[i])]

\* the left-to-right sum of a sequence of floats, from 0.0 (np.sum)
RECURSIVE SumSeq(_)
SumSeq(s) ==
    IF s = <<>> THEN Fin(0)
    ELSE FAdd(SumSeq(SubSeq(s, 1, Len(s) - 1)), s[Len(s)])

\* ------------------------------------------------------------------------
\* State
\* ------------------------------------------------------------------------

VARIABLES
    lci_index,       \* DataManager.lci_df.index: the flow names, in order
    lci_columns,     \* DataManager.lci_df.columns: the process names, in order
    lci_data,        \* DataManager.lci_df values: lci_data[i][j], NaN = unset
    lci_units,       \* DataManager.lci_units: name -> unit
    transformities,  \* DataManager.transformities: name -> [value, unit]
    results,         \* EmergyCalculator.results: None or key -> value
    parameters,      \* the parameter bag handed to calculate_emergy
    lastCall,        \* the last call: a calculation type or a DataManager method
    args,            \* the arguments of the last DataManager call
    prevCall,        \* history of SpecRuns: the call before the last one and
                     \* what it returned
    before,          \* history of SpecRoundTrip: the matrix as the last add
                     \* call found it, what that call was, and whether a
                     \* remove call has followed it
    ret,             \* what that call returned
    messagebox,      \* the messagebox reports of that call, in order
    frame,           \* the locals of the mode logic when that call left it
    disk             \* the session files save_data_to_json has written:
                     \* path -> what json.load reads there

store == <<lci_index, lci_columns, lci_data, lci_units, transformities>>
vars  == <<lci_index, lci_columns, lci_data, lci_units, transformities,
           results, parameters, lastCall, args, prevCall, before, ret,
           messagebox, frame, disk>>

\* the history variables, which no method of the program reads or writes
history == <<prevCall, before>>

\* self.results = None
None == [none |-> TRUE]

\* the keys of the results bundle
K_EMERGY  == "emergy_per_input_flow_for_each_process"
K_TOTAL   == "total_emergy_per_process"
K_SUM     == "sum_of_direct_inputs_per_process"
K_EYR     == "EYR (Emergy Yield Ratio)"
K_ELR     == "ELR (Environmental Loading Ratio)"
K_ESI     == "ESI (Emergy Sustainability Index)"
K_SUMMARY == "calculation_summary"

\* pd.DataFrame and pd.Series values
DataFrame(index, columns, data) ==
    [index |-> index, columns |-> columns, data |-> data]
Series(index, data) == [index |-> index, data |-> data]

\* ------------------------------------------------------------------------
\* DataManager: what the calculator reads
\* ------------------------------------------------------------------------

\* get_lci_matrix_for_calc without the fillna(0)
get_lci_matrix_for_calc_no_fillna ==
    [i \in 1..Len(lci_index) |-> [j \in 1..Len(lci_columns) |-> lci_data[i][j]]]

\* lci_df.fillna(0).values
get_lci_matrix_for_calc ==
    [i \in 1..Len(lci_index) |->
        [j \in 1..Len(lci_columns) |->
            IF IsNaN(lci_data[i][j]) THEN Fin(0) ELSE lci_data[i][j]]]

get_lci_names_for_calc == [columns |-> lci_columns, rows |-> lci_index]

\* get_transformity_value(fn) is not None
has_transformity_value(fn) == Strip(fn) \in DOMAIN transformities

get_transformity_value(fn) == transformities[Strip(fn)].value

\* ------------------------------------------------------------------------
\* DataManager: the operations on the store
\* ------------------------------------------------------------------------

\* unit_str of add_transformity when none is given
DefaultTfUnit == <<"sej/unidade_original">>

\* what a DataManager call leaves alone of the calculator and the session
calculator == <<results, parameters, frame>>

\* _validate_name: str(name).strip(), refused when nothing is left
validate_name(name) == Strip(name)

invalid_name_report == [kind |-> "showerror", title |-> "Nome Invalido"]

\* the positions of a label on an axis
positions(axis, name) == {i \in 1..Len(axis) : axis[i] = name}

\* the members of a sequence at the positions of keep, in their order
RECURSIVE select(_, _, _)
select(q, keep, i) ==
    IF i > Len(q) THEN <<>>
    ELSE (IF i \in keep THEN <<q[i]>> ELSE <<>>) \o select(q, keep, i + 1)

\* a dict without one key
without(d, key) == [k \in DOMAIN d \ {key} |-> d[k]]

\* refused with the unit map emptied on the way out
refused_dropping_units(method, arguments, reports) ==
    /\ ret' = FALSE
    /\ lastCall' = method
    /\ args' = arguments
    /\ messagebox' = reports
    /\ lci_units' = [k \in {} |-> <<>>]
    /\ UNCHANGED <<lci_index, lci_columns, lci_data, transformities, calculator>>

\* the call leaves the store as it is and returns False with its reports
refused(method, arguments, reports) ==
    /\ ret' = FALSE
    /\ lastCall' = method
    /\ args' = arguments
    /\ messagebox' = reports
    /\ UNCHANGED <<store, calculator>>

\* new_row_data with a 0 in every cell
new_row_data_zeros == [j \in 1..Len(lci_columns) |-> Fin(0)]

\* pd.Series([np.nan] * len(columns), index=columns)
new_row_data == [j \in 1..Len(lci_columns) |-> NaN]

add_lci_input_flow(flow_name, unit) ==
    LET name == validate_name(flow_name)
        call == <<flow_name, unit>>
    IN  IF name = <<>>
        THEN refused("add_lci_input_flow", call, <<invalid_name_report>>)
        ELSE IF name \in Range(lci_index)
        THEN refused("add_lci_input_flow", call,
                     <<[kind |-> "showwarning", title |-> "Fluxo Existente"]>>)
        ELSE IF lci_columns = <<>>
        THEN \* .loc[flow_name] = pd.Series(dtype=float) on a frame without
             \* columns raises ValueError, which the except clause reports
             refused("add_lci_input_flow", call,
                     <<[kind |-> "showerror", title |-> "Erro ao Adicionar Fluxo"]>>)
        ELSE /\ lci_index' = Append(lci_index, name)
             /\ lci_data' = Append(lci_data, new_row_data)
             /\ lci_units' = (name :> Strip(unit)) @@ lci_units
             /\ ret' = TRUE
             /\ lastCall' = "add_lci_input_flow"
             /\ args' = call
             /\ messagebox' = <<>>
             /\ UNCHANGED <<lci_columns, transformities, calculator>>

\* lci_df[process_name] = np.nan: one more cell, unset, in every row
new_column(data) == [i \in 1..Len(data) |-> Append(data[i], NaN)]

add_lci_process_column(process_name, unit) ==
    LET name == validate_name(process_name)
        call == <<process_name, unit>>
    IN  IF name = <<>>
        THEN refused("add_lci_process_column", call, <<invalid_name_report>>)
        ELSE IF name \in Range(lci_columns)
        THEN refused("add_lci_process_column", call,
                     <<[kind |-> "showwarning", title |-> "Processo Existente"]>>)
        ELSE /\ lci_columns' = Append(lci_columns, name)
             /\ lci_data' = new_column(lci_data)
             /\ lci_units' = (name :> Strip(unit)) @@ lci_units
             /\ ret' = TRUE
             /\ lastCall' = "add_lci_process_column"
             /\ args' = call
             /\ messagebox' = <<>>
             /\ UNCHANGED <<lci_index, transformities, calculator>>

\* frame_with_value writing val into every cell of the rows
frame_with_value_whole_row(rows, cols, val) ==
    [i \in 1..Len(lci_index) |->
        [j \in 1..Len(lci_columns) |->
            IF i \in rows THEN val ELSE lci_data[i][j]]]

\* self.lci_df.loc[flow_name, process_name] = val
frame_with_value(rows, cols, val) ==
    [i \in 1..Len(lci_index) |->
        [j \in 1..Len(lci_columns) |->
            IF i \in rows /\ j \in cols THEN val ELSE lci_data[i][j]]]

set_lci_value(flow_name, process_name, value_str) ==
    LET flow == validate_name(flow_name)
        process == validate_name(process_name)
        call == <<flow_name, process_name, <<value_str>>>>
        rows == positions(lci_index, flow)
        cols == positions(lci_columns, process)
    IN  IF flow = <<>> \/ process = <<>>
        THEN refused("set_lci_value", call,
                     (IF flow = <<>> THEN <<invalid_name_report>> ELSE <<>>)
                     \o (IF process = <<>> THEN <<invalid_name_report>> ELSE <<>>))
        ELSE IF rows = {}
        THEN refused("set_lci_value", call,
                     <<[kind |-> "showerror", title |-> "Erro de LCI",
                        missing |-> "flow"]>>)
        ELSE IF cols = {}
        THEN refused("set_lci_value", call,
                     <<[kind |-> "showerror", title |-> "Erro de LCI",
                        missing |-> "process"]>>)
        ELSE IF ~ParsesAsFloat(value_str)
        THEN refused("set_lci_value", call,
                     <<[kind |-> "showerror", title |-> "Valor Invalido"]>>)
        ELSE /\ lci_data' = frame_with_value(rows, cols, ParseFloat(value_str))
             /\ ret' = TRUE
             /\ lastCall' = "set_lci_value"
             /\ args' = call
             /\ messagebox' = <<>>
             /\ UNCHANGED <<lci_index, lci_columns, lci_units, transformities,
                            calculator>>

\* self.lci_units.get(str(name).strip(), "")
get_lci_unit(name) ==
    IF Strip(name) \in DOMAIN lci_units THEN lci_units[Strip(name)] ELSE <<>>

\* if name in self.lci_units: del self.lci_units[name]
units_after_remove(name) == without(lci_units, name)

\* columns_after_drop with the first column dropped, whatever its label
columns_after_drop_first(name) == 2..Len(lci_columns)

\* lci_df.drop(process_name, axis=1): the columns that stay
columns_after_drop(name) == (1..Len(lci_columns)) \ positions(lci_columns, name)

\* rows_after_drop with the last row dropped, whatever its label
rows_after_drop_last(name) == 1..(Len(lci_index) - 1)

\* lci_df.drop(flow_name, axis=0): the rows that stay
rows_after_drop(name) == (1..Len(lci_index)) \ positions(lci_index, name)

remove_lci_input_flow(flow_name) ==
    LET name == validate_name(flow_name)
        call == <<flow_name>>
        keep == rows_after_drop(name)
    IN  IF name = <<>>
        THEN refused("remove_lci_input_flow", call, <<invalid_name_report>>)
        ELSE IF name \notin Range(lci_index)
        THEN refused("remove_lci_input_flow", call,
                     <<[kind |-> "showwarning", title |-> "Fluxo Nao Encontrado"]>>)
        ELSE /\ lci_index' = select(lci_index, keep, 1)
             /\ lci_data' = select(lci_data, keep, 1)
             /\ lci_units' = units_after_remove(name)
             /\ ret' = TRUE
             /\ lastCall' = "remove_lci_input_flow"
             /\ args' = call
             /\ messagebox' = <<>>
             /\ UNCHANGED <<lci_columns, transformities, calculator>>

remove_lci_process_column(process_name) ==
    LET name == validate_name(process_name)
        call == <<process_name>>
        keep == columns_after_drop(name)
    IN  IF name = <<>>
        THEN refused("remove_lci_process_column", call, <<invalid_name_report>>)
        ELSE IF name \notin Range(lci_columns)
        THEN refused("remove_lci_process_column", call,
                     <<[kind |-> "showwarning", title |-> "Processo Nao Encontrado"]>>)
        ELSE /\ lci_columns' = select(lci_columns, keep, 1)
             /\ lci_data' = [i \in 1..Len(lci_index) |-> select(lci_data[i], keep, 1)]
             /\ lci_units' = units_after_remove(name)
             /\ ret' = TRUE
             /\ lastCall' = "remove_lci_process_column"
             /\ args' = call
             /\ messagebox' = <<>>
             /\ UNCHANGED <<lci_index, transformities, calculator>>

\* table_with that keeps the entry a name already has
table_with_first_kept(name, entry) == transformities @@ (name :> entry)

\* self.transformities[flow_name] = {'value': ..., 'unit': ...}
table_with(name, entry) == (name :> entry) @@ transformities

add_transformity(flow_name, value_str, unit_str) ==
    LET name == validate_name(flow_name)
        call == <<flow_name, <<value_str>>, unit_str>>
    IN  IF name = <<>>
        THEN refused("add_transformity", call, <<invalid_name_report>>)
        ELSE IF ~ParsesAsFloat(value_str)
        THEN refused("add_transformity", call,
                     <<[kind |-> "showerror", title |-> "Valor Invalido"]>>)
        ELSE /\ transformities' =
                    table_with(name,
                               [value |-> ParseFloat(value_str),
                                unit |-> IF unit_str # <<>> THEN Strip(unit_str)
                                         ELSE DefaultTfUnit])
             /\ ret' = TRUE
             /\ lastCall' = "add_transformity"
             /\ args' = call
             /\ messagebox' = <<>>
             /\ UNCHANGED <<lci_index, lci_columns, lci_data, lci_units, calculator>>

remove_transformity(flow_name) ==
    LET name == validate_name(flow_name)
        call == <<flow_name>>
    IN  IF name = <<>>
        THEN refused("remove_transformity", call, <<invalid_name_report>>)
        ELSE IF name \notin DOMAIN transformities
        THEN refused("remove_transformity", call,
                     <<[kind |-> "showwarning",
                        title |-> "Transformidade Nao Encontrada"]>>)
        ELSE /\ transformities' = without(transformities, name)
             /\ ret' = TRUE
             /\ lastCall' = "remove_transformity"
             /\ args' = call
             /\ messagebox' = <<>>
             /\ UNCHANGED <<lci_index, lci_columns, lci_data, lci_units, calculator>>

\* a new empty frame and two new empty dicts; the method returns None, of
\* which ret keeps the truth value
clear_all_data ==
    /\ lci_index' = <<>>
    /\ lci_columns' = <<>>
    /\ lci_data' = <<>>
    /\ lci_units' = [k \in {} |-> <<>>]
    /\ transformities' = [k \in {} |-> <<>>]
    /\ ret' = FALSE
    /\ lastCall' = "clear_all_data"
    /\ args' = <<>>
    /\ messagebox' = <<>>
    /\ UNCHANGED calculator

\* A JSON cell of a record: a number (NaN and Infinity included, as
\* json.load reads them), null, or a string
JsonNumber(x) == [json |-> "number", value |-> x]
JsonNull      == [json |-> "null"]
JsonString(t) == [json |-> "string", text |-> t]

\* to_numeric with a text cell that is not a number read as 0
to_numeric_text_as_zero(cell) ==
    IF cell.json = "number" THEN cell.value
    ELSE IF cell.json = "null" THEN NaN
    ELSE IF ParsesAsFloat(cell.text) THEN ParseFloat(cell.text)
    ELSE Fin(0)

\* pd.to_numeric(column, errors='coerce') on one cell
to_numeric(cell) ==
    IF cell.json = "number" THEN cell.value
    ELSE IF cell.json = "null" THEN NaN
    ELSE IF ParsesAsFloat(cell.text) THEN ParseFloat(cell.text)
    ELSE NaN

\* the length of the longest row of data
widest(data) ==
    IF data = <<>> THEN 0
    ELSE CHOOSE n \in {Len(data[i]) : i \in 1..Len(data)} :
            \A i \in 1..Len(data) : Len(data[i]) <= n

\* pd.DataFrame(data, index=index, columns=columns): an empty data list
\* gives a frame of the index and the columns with every cell unset;
\* otherwise the rows are padded with None to the longest one, and the
\* constructor raises ValueError unless there is one row per index label
\* and the longest row has one cell per column
frame_shape_ok(lci_dict) ==
    \/ lci_dict.data = <<>>
    \/ /\ Len(lci_dict.data) = Len(lci_dict.index)
       /\ widest(lci_dict.data) = Len(lci_dict.columns)

\* the cell of that frame at row i and column j
frame_cell(lci_dict, i, j) ==
    IF lci_dict.data = <<>> THEN JsonNull
    ELSE IF j > Len(lci_dict.data[i]) THEN JsonNull
    ELSE lci_dict.data[i][j]

\* lci_dict and 'data' in lci_dict and 'index' in lci_dict and 'columns' in
\* lci_dict
has_matrix_part(loaded_data) ==
    /\ "lci_data" \in DOMAIN loaded_data
    /\ {"data", "index", "columns"} \subseteq DOMAIN loaded_data.lci_data

\* self.lci_df[col] of a label that several columns carry is a DataFrame,
\* on which pd.to_numeric raises TypeError: the loop over the columns ends
\* at the first column whose label is repeated
label_repeated(columns, j) ==
    \E k \in 1..Len(columns) : k # j /\ columns[k] = columns[j]

converted_before_raise(columns) ==
    {j \in 1..Len(columns) :
        \A k \in 1..j : ~label_repeated(columns, k)}

\* a cell of pd.DataFrame(data, ...) that the loop has not reached: a
\* number as it is, null as NaN
as_constructed(cell) ==
    CASE cell.json = "number" -> cell.value
      [] cell.json = "null" -> NaN

\* json.load(f) of the file at filepath
json_load(files, filepath) == files[filepath]

load_data_from_json(files, filepath) ==
    LET loaded_data == json_load(files, filepath)
        lci_dict == loaded_data.lci_data
        call == <<filepath>>
    IN  IF has_matrix_part(loaded_data) /\ ~frame_shape_ok(lci_dict)
        THEN refused("load_data_from_json", call,
                     <<[kind |-> "showerror", title |-> "Erro ao Carregar Sessao"]>>)
        ELSE IF has_matrix_part(loaded_data)
                /\ converted_before_raise(lci_dict.columns) # 1..Len(lci_dict.columns)
        THEN \* self.lci_df is already the frame of the file when the loop
             \* raises; the except clause reports and returns False before
             \* lci_units and transformities are assigned
             /\ lci_index' = lci_dict.index
             /\ lci_columns' = lci_dict.columns
             /\ lci_data' =
                    [i \in 1..Len(lci_dict.index) |->
                        [j \in 1..Len(lci_dict.columns) |->
                            IF j \in converted_before_raise(lci_dict.columns)
                            THEN to_numeric(frame_cell(lci_dict, i, j))
                            ELSE as_constructed(frame_cell(lci_dict, i, j))]]
             /\ ret' = FALSE
             /\ lastCall' = "load_data_from_json"
             /\ args' = call
             /\ messagebox' = <<[kind |-> "showerror",
                                 title |-> "Erro ao Carregar Sessao"]>>
             /\ UNCHANGED <<lci_units, transformities, calculator>>
        ELSE /\ IF has_matrix_part(loaded_data)
                THEN /\ lci_index' = lci_dict.index
                     /\ lci_columns' = lci_dict.columns
                     /\ lci_data' =
                            [i \in 1..Len(lci_dict.index) |->
                                [j \in 1..Len(lci_dict.columns) |->
                                    to_numeric(frame_cell(lci_dict, i, j))]]
                ELSE /\ lci_index' = <<>>
                     /\ lci_columns' = <<>>
                     /\ lci_data' = <<>>
             /\ lci_units' = IF "lci_units" \in DOMAIN loaded_data
                             THEN loaded_data.lci_units
                             ELSE [k \in {} |-> <<>>]
             /\ transformities' = IF "transformities" \in DOMAIN loaded_data
                                  THEN loaded_data.transformities
                                  ELSE [k \in {} |-> <<>>]
             /\ ret' = TRUE
             /\ lastCall' = "load_data_from_json"
             /\ args' = call
             /\ messagebox' = <<[kind |-> "showinfo", title |-> "Sessao Carregada"]>>
             /\ UNCHANGED calculator

\* json.dump of a cell of lci_df.to_dict(orient="split") with the unset
\* cells written as 0
cell_to_json_filled(x) == JsonNumber(IF IsNaN(x) THEN Fin(0) ELSE x)

\* json.dump of a cell of lci_df.to_dict(orient="split"), as json.load reads
\* it back: the float, NaN and Infinity included
cell_to_json(x) == JsonNumber(x)

\* lci_df.to_dict(orient="split"): the rows come from itertuples, which
\* yields nothing for a frame without columns
to_dict_split ==
    [index |-> lci_index, columns |-> lci_columns,
     data |-> IF lci_columns = <<>> THEN <<>>
              ELSE [i \in 1..Len(lci_index) |->
                       [j \in 1..Len(lci_columns) |-> cell_to_json(lci_data[i][j])]]]

data_to_save ==
    [lci_data |-> to_dict_split, lci_units |-> lci_units,
     transformities |-> transformities]

\* open(filepath, 'w') raises OSError at a path that cannot be written
Unwritable == {<<"unwritable">>}

save_data_to_json(filepath) ==
    IF filepath \in Unwritable
    THEN /\ refused("save_data_to_json", <<filepath>>,
                    <<[kind |-> "showerror", title |-> "Erro ao Salvar Sessao"]>>)
         /\ UNCHANGED disk
    ELSE /\ disk' = (filepath :> data_to_save) @@ disk
         /\ ret' = TRUE
         /\ lastCall' = "save_data_to_json"
         /\ args' = <<filepath>>
         /\ messagebox' = <<[kind |-> "showinfo", title |-> "Sessao Salva"]>>
         /\ UNCHANGED <<store, calculator>>

\* ------------------------------------------------------------------------
\* EmergyCalculator._get_required_transformities
\* ------------------------------------------------------------------------

\* "param_key in parameters" with a value float() accepts / rejects
manual_given(fn, params) == ParamKey(fn) \in DOMAIN params
manual_parses(fn, params) ==
    manual_given(fn, params) /\ ParsesAsFloat(params[ParamKey(fn)])
manual_invalid(fn, params) ==
    manual_given(fn, params) /\ ~ParsesAsFloat(params[ParamKey(fn)])
table_used(fn, params) == ~manual_given(fn, params) /\ has_transformity_value(fn)
tf_missing(fn, params) == ~manual_given(fn, params) /\ ~has_transformity_value(fn)

\* resolved_value with the table consulted before the manual override
resolved_value_table_first(fn, params) ==
    IF has_transformity_value(fn) THEN get_transformity_value(fn)
    ELSE ParseFloat(params[ParamKey(fn)])

\* final_tf[fn], for a flow the loop resolved
resolved_value(fn, params) ==
    IF manual_given(fn, params) THEN ParseFloat(params[ParamKey(fn)])
    ELSE get_transformity_value(fn)

\* resolved_flows without the last flow the loop resolved
resolved_flows_drop_last(input_flow_names, params) ==
    LET all == SelectSeq(input_flow_names,
                         LAMBDA fn : manual_parses(fn, params) \/ table_used(fn, params))
    IN  IF all = <<>> THEN <<>> ELSE SubSeq(all, 1, Len(all) - 1)

\* the flows the loop puts into final_tf, into errors and into
\* missing_tf_info, each in the order of input_flow_names
resolved_flows(input_flow_names, params) ==
    SelectSeq(input_flow_names,
              LAMBDA fn : manual_parses(fn, params) \/ table_used(fn, params))
invalid_flows(input_flow_names, params) ==
    SelectSeq(input_flow_names, LAMBDA fn : manual_invalid(fn, params))
\* missing_flows stopping at the first unresolved flow
missing_flows_first_only(input_flow_names, params) ==
    LET all == SelectSeq(input_flow_names, LAMBDA fn : tf_missing(fn, params))
    IN  IF all = <<>> THEN <<>> ELSE <<all[1]>>
missing_flows(input_flow_names, params) ==
    SelectSeq(input_flow_names, LAMBDA fn : tf_missing(fn, params))

\* resolver_exit with the two failure exits in the other order
resolver_exit_missing_first(errors, missing_tf_info) ==
    IF missing_tf_info # <<>> THEN "missing"
    ELSE IF errors # <<>> THEN "errors"
    ELSE "resolved"

\* which of the three exits is taken: "if errors", "if missing_tf_info",
\* or the return of final_tf
resolver_exit(errors, missing_tf_info) ==
    IF errors # <<>> THEN "errors"
    ELSE IF missing_tf_info # <<>> THEN "missing"
    ELSE "resolved"

\* The result is (final_tf or None, log) and what was shown; ok is
\* "final_tf is not None".
get_required_transformities(input_flow_names, params) ==
    LET resolved == resolved_flows(input_flow_names, params)
        final_tf == [fn \in Range(resolved) |-> resolved_value(fn, params)]
        errors == MapSeq(invalid_flows(input_flow_names, params),
                         LAMBDA fn : [flow |-> fn, value |-> params[ParamKey(fn)]])
        missing_tf_info == missing_flows(input_flow_names, params)
        log_messages ==
            MapSeq(resolved,
                   LAMBDA fn : [source |-> IF manual_given(fn, params)
                                           THEN "manual" ELSE "tabela",
                                flow |-> fn,
                                value |-> Format2e(final_tf[fn])])
        exit == resolver_exit(errors, missing_tf_info)
    IN  IF exit = "errors"
        THEN [ok |-> FALSE, final_tf |-> <<>>, log |-> <<>>,
              shown |-> <<[kind |-> "showerror",
                           title |-> "Erro nos Parametros de Transformidade",
                           errors |-> errors]>>]
        ELSE IF exit = "missing"
        THEN [ok |-> FALSE, final_tf |-> <<>>, log |-> <<>>,
              shown |-> <<[kind |-> "showerror",
                           title |-> "Transformidades Faltando",
                           flows |-> missing_tf_info]>>]
        ELSE [ok |-> TRUE, final_tf |-> final_tf,
              log |-> IF DOMAIN final_tf = {} /\ input_flow_names # <<>>
                      THEN log_messages \o <<[source |-> "AVISO"]>>
                      ELSE log_messages,
              shown |-> <<>>]

\* ------------------------------------------------------------------------
\* EmergyCalculator._calculate_total_emergy_logic
\* ------------------------------------------------------------------------

NoResults == [k \in {} |-> None]

Zeros(names) == [j \in 1..Len(names) |-> Fin(0)]

\* ColumnSums leaving the last row out of every sum
ColumnSums_drop_last_row(m, ncols) ==
    [j \in 1..ncols |-> SumSeq([i \in 1..(Len(m) - 1) |-> m[i][j]])]

\* np.sum(m, axis=0) of a matrix with ncols columns
ColumnSums(m, ncols) ==
    [j \in 1..ncols |-> SumSeq([i \in 1..Len(m) |-> m[i][j]])]

\* What one mode logic hands back to calculate_emergy: its return value,
\* what it wrote to self.results, what it appended to calc_summary_msg,
\* the message boxes it showed and its locals.
\* matrix_completely_empty with the test never taken
matrix_completely_empty_never(input_flow_names, process_names) == FALSE

\* not input_flow_names and not process_names
matrix_completely_empty(input_flow_names, process_names) ==
    input_flow_names = <<>> /\ process_names = <<>>

\* flows_absent with the test never taken
flows_absent_never(input_flow_names, process_names) == FALSE

\* not input_flow_names and process_names
flows_absent(input_flow_names, process_names) ==
    input_flow_names = <<>> /\ process_names # <<>>

calculate_total_emergy_logic(params) ==
    LET lci_matrix == get_lci_matrix_for_calc
        input_flow_names == get_lci_names_for_calc.rows
        process_names == get_lci_names_for_calc.columns
        r == get_required_transformities(input_flow_names, params)
        required_tfs == r.final_tf
        tf_vector == [i \in 1..Len(input_flow_names) |->
                        IF input_flow_names[i] \in DOMAIN required_tfs
                        THEN required_tfs[input_flow_names[i]] ELSE Fin(0)]
        emergy_values_per_input ==
            [i \in 1..Len(lci_matrix) |->
                [j \in 1..Len(process_names) |-> FMul(lci_matrix[i][j], tf_vector[i])]]
        tf_entry == IF r.log # <<>>
                    THEN [msg |-> "Detalhes das Transformidades Utilizadas",
                          log |-> r.log]
                    ELSE [msg |-> "Nenhuma transformidade especifica foi processada"]
        tf_final == IF DOMAIN required_tfs # {}
                    THEN <<[msg |-> "Transformidades Finais",
                            values |-> [fn \in DOMAIN required_tfs |->
                                           Format2e(required_tfs[fn])]]>>
                    ELSE <<>>
    IN  IF matrix_completely_empty(input_flow_names, process_names)
        THEN [ok |-> FALSE, out |-> NoResults, summary |-> <<>>,
              shown |-> <<[kind |-> "showerror",
                           title |-> "Dados Insuficientes para Calculo"]>>,
              frame |-> [logic |-> "total", resolver |-> FALSE]]
        ELSE IF flows_absent(input_flow_names, process_names)
        THEN [ok |-> TRUE,
              out |-> (K_EMERGY :> DataFrame(<<>>, process_names, <<>>))
                      @@ (K_TOTAL :> Series(process_names, Zeros(process_names))),
              summary |-> <<[msg |-> "LCI nao possui fluxos de entrada"]>>,
              shown |-> <<[kind |-> "showwarning",
                           title |-> "Calculo com Fluxos Ausentes"]>>,
              frame |-> [logic |-> "total", resolver |-> FALSE]]
        ELSE IF ~r.ok
        THEN [ok |-> FALSE, out |-> NoResults, summary |-> <<>>,
              shown |-> r.shown,
              frame |-> [logic |-> "total", resolver |-> TRUE]]
        ELSE IF Len(lci_matrix) # Len(tf_vector)
        THEN [ok |-> FALSE, out |-> NoResults,
              summary |-> <<tf_entry, [msg |-> "ERRO: Incompatibilidade dimensional"]>>,
              shown |-> <<[kind |-> "showerror",
                           title |-> "Erro de Dimensao no Calculo"]>>,
              frame |-> [logic |-> "total", resolver |-> TRUE,
                         required_tfs |-> required_tfs, tf_vector |-> tf_vector]]
        ELSE IF Len(lci_matrix) > 0 /\ Len(process_names) > 0
        THEN [ok |-> TRUE,
              out |-> (K_EMERGY :> DataFrame(input_flow_names, process_names,
                                             emergy_values_per_input))
                      @@ (K_TOTAL :> Series(process_names,
                                            ColumnSums(emergy_values_per_input,
                                                       Len(process_names)))),
              summary |-> <<tf_entry,
                            [msg |-> "Emergia total por processo calculada com sucesso"]>>
                          \o tf_final,
              shown |-> <<>>,
              frame |-> [logic |-> "total", resolver |-> TRUE,
                         required_tfs |-> required_tfs, tf_vector |-> tf_vector]]
        ELSE [ok |-> TRUE,
              out |-> (K_TOTAL :> Series(process_names, Zeros(process_names)))
                      @@ (K_EMERGY :> DataFrame(input_flow_names, process_names,
                                                [i \in 1..Len(input_flow_names) |->
                                                    Zeros(process_names)])),
              summary |-> <<tf_entry,
                            [msg |-> "Calculo de emergia total nao produziu valores"]>>,
              shown |-> <<>>,
              frame |-> [logic |-> "total", resolver |-> TRUE,
                         required_tfs |-> required_tfs, tf_vector |-> tf_vector]]

\* ------------------------------------------------------------------------
\* EmergyCalculator._calculate_direct_inputs_sum_logic
\* ------------------------------------------------------------------------

\* pd.DataFrame.empty: an axis of length 0
lci_df_empty == Len(lci_index) = 0 \/ Len(lci_columns) = 0

calculate_direct_inputs_sum_logic(params) ==
    LET process_names == lci_columns
        input_flow_names == lci_index
        lci_matrix_values == get_lci_matrix_for_calc
    IN  IF lci_df_empty \/ input_flow_names = <<>>
        THEN [ok |-> TRUE,
              out |-> (K_SUM :> Series(process_names, Zeros(process_names))),
              summary |->
                  IF input_flow_names = <<>> /\ process_names # <<>>
                  THEN <<[msg |-> "Matriz LCI nao possui fluxos de entrada. A soma dos inputs diretos e zero"]>>
                  ELSE IF lci_df_empty
                  THEN <<[msg |-> "Matriz LCI esta completamente vazia. A soma dos inputs diretos e zero"]>>
                  ELSE <<[msg |-> "Matriz LCI nao contem fluxos de entrada. A soma dos inputs diretos e zero"]>>,
              shown |-> <<>>,
              frame |-> [logic |-> "direct"]]
        ELSE [ok |-> TRUE,
              out |-> (K_SUM :> Series(process_names,
                                       ColumnSums(lci_matrix_values, Len(process_names)))),
              summary |-> <<[msg |-> "Soma dos inputs diretos por processo calculada"]>>,
              shown |-> <<>>,
              frame |-> [logic |-> "direct"]]

\* ------------------------------------------------------------------------
\* EmergyCalculator._calculate_emergy_indices_logic
\* ------------------------------------------------------------------------

KeyR == <<"R">>
KeyN == <<"N">>
KeyF == <<"F">>
KeyY == <<"Y">>

\* param_names_map, in its iteration order
RequiredKeys == <<KeyR, KeyN, KeyF>>

\* what the loop body finds for one key: the value is None or blank, float()
\* raises ValueError, the value is < 0, or the key passes
param_check(params, key) ==
    IF key \notin DOMAIN params \/ IsBlank(params[key]) THEN "absent"
    ELSE IF ~ParsesAsFloat(params[key]) THEN "non_numeric"
    ELSE IF FLt(ParseFloat(params[key]), Fin(0)) THEN "negative"
    ELSE "ok"

\* first_invalid with the loop reporting the last invalid key
first_invalid_reports_last(params) ==
    LET bad == {i \in 1..Len(RequiredKeys) :
                   param_check(params, RequiredKeys[i]) # "ok"}
    IN  IF bad = {} THEN 0 ELSE CHOOSE i \in bad : \A j \in bad : i >= j

\* the position in RequiredKeys at which the loop returns False; 0 when it
\* runs to its end
first_invalid(params) ==
    LET bad == {i \in 1..Len(RequiredKeys) :
                   param_check(params, RequiredKeys[i]) # "ok"}
    IN  IF bad = {} THEN 0 ELSE CHOOSE i \in bad : \A j \in bad : i <= j

\* eyr_of without the test of Y_ > 0 when F_ is zero
eyr_of_zero_yield_inf(Y_, F_) ==
    IF FNe(F_, Fin(0)) THEN FDiv(Y_, F_) ELSE PosInf

eyr_of(Y_, F_) ==
    IF FNe(F_, Fin(0)) THEN FDiv(Y_, F_)
    ELSE IF FGt(Y_, Fin(0)) THEN PosInf ELSE NaN

\* elr_of with N alone as the numerator
elr_of_without_F(R, N, F_) ==
    IF FNe(R, Fin(0)) THEN FDiv(N, R)
    ELSE IF FGt(FAdd(N, F_), Fin(0)) THEN PosInf ELSE Fin(0)

elr_of(R, N, F_) ==
    IF FNe(R, Fin(0)) THEN FDiv(FAdd(N, F_), R)
    ELSE IF FGt(FAdd(N, F_), Fin(0)) THEN PosInf ELSE Fin(0)

\* esi_of without the exclusion of an infinite elr
esi_of_no_inf_check(eyr, elr) ==
    IF FNe(elr, Fin(0)) /\ ~(IsNaN(eyr) \/ IsNaN(elr))
    THEN FDiv(eyr, elr)
    ELSE IF FEq(elr, Fin(0)) /\ FGt(eyr, Fin(0)) /\ ~IsNaN(eyr) THEN PosInf
    ELSE NaN

esi_of(eyr, elr) ==
    IF FNe(elr, Fin(0)) /\ ~(IsNaN(eyr) \/ IsNaN(elr) \/ FEq(elr, PosInf))
    THEN FDiv(eyr, elr)
    ELSE IF FEq(elr, Fin(0)) /\ FGt(eyr, Fin(0)) /\ ~IsNaN(eyr) THEN PosInf
    ELSE NaN

\* yield_of with Y_ always computed as R + N + F_
yield_of_always_sum(params, R, N, F_) == FAdd(FAdd(R, N), F_)

\* Y_: the Y of the bag when it is given, R + N + F_ when it is None or blank
yield_of(params, R, N, F_) ==
    IF KeyY \in DOMAIN params /\ ~IsBlank(params[KeyY])
    THEN ParseFloat(params[KeyY])
    ELSE FAdd(FAdd(R, N), F_)

calculate_emergy_indices_logic(params) ==
    LET bad == first_invalid(params)
        failed(title, key, reason) ==
            [ok |-> FALSE, out |-> NoResults, summary |-> <<>>,
             shown |-> <<[kind |-> "showerror", title |-> title,
                          param |-> key, reason |-> reason]>>,
             frame |-> [logic |-> "indices", validated |-> FALSE]]
        R  == ParseFloat(params[KeyR])
        N  == ParseFloat(params[KeyN])
        F_ == ParseFloat(params[KeyF])
        y_given == KeyY \in DOMAIN params /\ ~IsBlank(params[KeyY])
        Y_ == yield_of(params, R, N, F_)
        eyr == eyr_of(Y_, F_)
        elr == elr_of(R, N, F_)
        esi == esi_of(eyr, elr)
    IN  IF bad # 0
        THEN failed(IF param_check(params, RequiredKeys[bad]) = "absent"
                    THEN "Parametro Ausente para Indices"
                    ELSE "Valor Invalido para Indices",
                    RequiredKeys[bad], param_check(params, RequiredKeys[bad]))
        ELSE IF y_given /\ param_check(params, KeyY) # "ok"
        THEN failed("Valor Invalido para Yield (Y)", KeyY, param_check(params, KeyY))
        ELSE [ok |-> TRUE,
              out |-> (K_EYR :> Format2e(eyr)) @@ (K_ELR :> Format2e(elr))
                      @@ (K_ESI :> Format2e(esi)),
              summary |-> <<[msg |-> IF y_given
                                     THEN "Yield (Y) fornecido pelo usuario"
                                     ELSE "Yield (Y) calculado (R+N+F)",
                             Y |-> Format2e(Y_)],
                            [msg |-> "Valores de entrada para Indices",
                             R |-> Format2e(R), N |-> Format2e(N),
                             F |-> Format2e(F_), Y |-> Format2e(Y_)],
                            [msg |-> "EYR", value |-> Format2e(eyr)],
                            [msg |-> "ELR", value |-> Format2e(elr)],
                            [msg |-> "ESI", value |-> Format2e(esi)],
                            [msg |-> "Interpretacoes Gerais"]>>,
              shown |-> <<>>,
              frame |-> [logic |-> "indices", validated |-> TRUE,
                         R |-> R, N |-> N, F |-> F_, Y |-> Y_,
                         eyr |-> eyr, elr |-> elr, esi |-> esi]]

\* ------------------------------------------------------------------------
\* EmergyCalculator.calculate_emergy
\* ------------------------------------------------------------------------

TOTAL_EMERGY      == "TOTAL_EMERGY"
DIRECT_INPUTS_SUM == "DIRECT_INPUTS_SUM"
EMERGY_INDICES    == "EMERGY_INDICES"

\* results_reset with the previous bundle kept
results_kept == IF results = None THEN NoResults ELSE results

\* self.results = {}
results_reset == NoResults

\* the if / elif over the CalculationType members
mode_logic(calc_type_enum) ==
    CASE calc_type_enum = TOTAL_EMERGY ->
            calculate_total_emergy_logic(parameters)
      [] calc_type_enum = DIRECT_INPUTS_SUM ->
            calculate_direct_inputs_sum_logic(parameters)
      [] calc_type_enum = EMERGY_INDICES ->
            calculate_emergy_indices_logic(parameters)

\* calculate_emergy_finish after a fillna(0, inplace=True) on lci_df: the
\* unset cells of the store become 0
calculate_emergy_finish_filling(calc_type_enum, r) ==
    /\ results' = r.out
                    @@ (K_SUMMARY :> <<[msg |-> "Tipo de calculo selecionado",
                                        type |-> calc_type_enum]>> \o r.summary)
                    @@ results_reset
    /\ ret' = r.ok
    /\ lastCall' = calc_type_enum
    /\ messagebox' = r.shown
    /\ frame' = r.frame
    /\ lci_data' = get_lci_matrix_for_calc
    /\ UNCHANGED <<lci_index, lci_columns, lci_units, transformities, parameters>>

\* what calculate_emergy leaves once the mode logic has given r:
\* self.results = {} refilled with the outputs of r and the summary, which
\* is stored also when the logic returned False
calculate_emergy_finish(calc_type_enum, r) ==
    LET calc_summary_msg ==
            <<[msg |-> "Tipo de calculo selecionado", type |-> calc_type_enum]>>
            \o r.summary
    IN  /\ results' = r.out @@ (K_SUMMARY :> calc_summary_msg) @@ results_reset
        /\ ret' = r.ok
        /\ lastCall' = calc_type_enum
        /\ messagebox' = r.shown
        /\ frame' = r.frame
        /\ UNCHANGED <<store, parameters>>

\* One call with a CalculationType member.
calculate_emergy(calc_type_enum) ==
    calculate_emergy_finish(calc_type_enum, mode_logic(calc_type_enum))

\* One call whose calculation_type_enum is not a CalculationType member:
\* it returns False before self.results is touched.
INVALID_TYPE == "INVALID_TYPE"

calculate_emergy_invalid_type ==
    /\ ret' = FALSE
    /\ lastCall' = INVALID_TYPE
    /\ messagebox' = <<[kind |-> "showerror", title |-> "Erro Interno de Calculo"]>>
    /\ frame' = [logic |-> "none"]
    /\ UNCHANGED <<store, parameters, results>>

CalculateTotalEmergy ==
    calculate_emergy(TOTAL_EMERGY) /\ UNCHANGED <<history, args, disk>>
CalculateDirectInputsSum ==
    calculate_emergy(DIRECT_INPUTS_SUM) /\ UNCHANGED <<history, args, disk>>
CalculateEmergyIndices ==
    calculate_emergy(EMERGY_INDICES) /\ UNCHANGED <<history, args, disk>>

\* ------------------------------------------------------------------------
\* Inputs
\* ------------------------------------------------------------------------

\* the longest flow list of an initial store
MaxFlows == 2

Sun    == <<"S", "u", "n">>
A_sp_B == <<"A", " ", "B">>
A_pt_B == <<"A", ".", "B">>
Widget == <<"W", "i", "d", "g", "e", "t">>
P2     == <<"P", "2">>

FlowNames == {Sun, A_sp_B, A_pt_B}
ProcNames == {Widget, P2}

\* the sequences of pairwise distinct members of S, of length at most n
RECURSIVE DistinctSeqs(_, _)
DistinctSeqs(S, n) ==
    IF n = 0 THEN {<<>>}
    ELSE LET shorter == DistinctSeqs(S, n - 1)
         IN  shorter \cup
             UNION {{Append(q, x) : x \in S \ Range(q)} : q \in shorter}

\* a function given as the partial map of f to the keys it defines
\* (a dict: the keys mapped to Absent are left out)
Absent == "<absent>"
Dict(f) == [k \in {x \in DOMAIN f : f[x] # Absent} |-> f[k]]

CellValues    == {NaN, Fin(100)}
TableValues   == {Fin(1500)}
OverrideTexts == {"2000", "abc"}
IndexTexts    == {"", "abc", "-1", "0", "10", "25", "50", "100", "inf", "nan"}

\* the parameter bags: manual overrides under the sanitized keys of the
\* flow names, and the R, N, F, Y fields of the indices mode
OverrideKeys == {ParamKey(fn) : fn \in FlowNames}
OverrideBags == {Dict(f) : f \in [OverrideKeys -> OverrideTexts \cup {Absent}]}
IndexBags    == {Dict(f) : f \in [{KeyR, KeyN, KeyF, KeyY} -> IndexTexts \cup {Absent}]}

\* the transformity tables add_transformity builds over the flow names
Tables ==
    UNION {[S -> [value : TableValues, unit : {DefaultTfUnit}]] :
              S \in SUBSET FlowNames}

EmptyDict == [k \in {} |-> <<>>]

\* ------------------------------------------------------------------------
\* Specifications
\* ------------------------------------------------------------------------

\* no add call recorded
NoAdd == [call |-> "none", name |-> <<>>, fresh |-> FALSE, stage |-> "none",
          index |-> <<>>, columns |-> <<>>, data |-> <<>>]

NoCall ==
    /\ results = None
    /\ lastCall = "none"
    /\ prevCall = [call |-> "none", ret |-> FALSE]
    /\ before = NoAdd
    /\ args = <<>>
    /\ ret = FALSE
    /\ messagebox = <<>>
    /\ frame = [logic |-> "none"]

\* DataManager.__init__ and EmergyCalculator.__init__
EmptyStore ==
    /\ lci_index = <<>>
    /\ lci_columns = <<>>
    /\ lci_data = <<>>
    /\ lci_units = EmptyDict
    /\ transformities = EmptyDict

\* The matrix modes, as functions of the store and the bag: a store the
\* DataManager operations build (pairwise distinct stripped names, a
\* rectangular matrix of unset and set cells, a unit for every name, table
\* entries from add_transformity) and a bag of manual overrides.
InitCalc ==
    /\ lci_index \in DistinctSeqs(FlowNames, MaxFlows)
    /\ lci_columns \in DistinctSeqs(ProcNames, Cardinality(ProcNames))
    /\ lci_data \in [1..Len(lci_index) -> [1..Len(lci_columns) -> CellValues]]
    /\ lci_units = [nm \in Range(lci_index) \cup Range(lci_columns) |-> <<>>]
    /\ transformities \in Tables
    /\ parameters \in OverrideBags
    /\ disk = EmptyDict
    /\ NoCall

NextCalc == CalculateTotalEmergy \/ CalculateDirectInputsSum

SpecCalc == InitCalc /\ [][NextCalc]_vars

\* The indices mode, as a function of the bag alone.
InitIndices ==
    /\ EmptyStore
    /\ parameters \in IndexBags
    /\ disk = EmptyDict
    /\ NoCall

NextIndices == CalculateEmergyIndices

SpecIndices == InitIndices /\ [][NextIndices]_vars

\* The store under its operations, from the empty store, with the names,
\* units, values and session files a user can supply.
SunPadded == <<" ", "S", "u", "n">>
sun       == <<"s", "u", "n">>
Blank     == <<" ">>
kg        == <<"k", "g">>

FlowInputs    == {Sun, SunPadded, sun, Blank}
ProcessInputs == {Widget, Sun, Blank}
FlowUnits     == {kg}
ProcessUnits  == {<<>>}
ValueTexts    == {"100", "abc", "inf"}
TfTexts       == {"1500", "abc"}

\* session files by path: one as save_data_to_json writes it, one whose index
\* repeats a label, one with a padded label and a text cell, one with an
\* Infinity cell, one whose data has fewer rows than its index, and one
\* without a matrix part
Matrix(index, columns, data) ==
    [index |-> index, columns |-> columns, data |-> data]
NoUnits == [nm \in {Sun, Widget} |-> <<>>]
SunTable == (Sun :> [value |-> Fin(1500), unit |-> DefaultTfUnit])
Snapshots ==
    (<<"saved">> :>
        [lci_data |-> Matrix(<<Sun>>, <<Widget>>, <<<<JsonNumber(Fin(100))>>>>),
         lci_units |-> NoUnits, transformities |-> SunTable])
    @@ (<<"repeated">> :>
        [lci_data |-> Matrix(<<Sun, Sun>>, <<Widget>>,
                             <<<<JsonNumber(Fin(100))>>, <<JsonNull>>>>),
         lci_units |-> NoUnits, transformities |-> EmptyDict])
    @@ (<<"padded">> :>
        [lci_data |-> Matrix(<<SunPadded>>, <<Widget>>, <<<<JsonString("abc")>>>>),
         lci_units |-> EmptyDict, transformities |-> EmptyDict])
    @@ (<<"infinity">> :>
        [lci_data |-> Matrix(<<Sun>>, <<Widget>>, <<<<JsonNumber(PosInf)>>>>),
         lci_units |-> NoUnits, transformities |-> EmptyDict])
    @@ (<<"ragged">> :>
        [lci_data |-> Matrix(<<Sun, sun>>, <<Widget>>, <<<<JsonNumber(Fin(100))>>>>),
         lci_units |-> NoUnits, transformities |-> EmptyDict])
    @@ (<<"no_matrix">> :>
        [lci_units |-> NoUnits, transformities |-> SunTable])

Init ==
    /\ EmptyStore
    /\ parameters = EmptyDict
    /\ disk = EmptyDict
    /\ NoCall

AddFlow ==
    /\ \E fn \in FlowInputs, u \in FlowUnits : add_lci_input_flow(fn, u)
    /\ UNCHANGED <<history, disk>>
AddProcess ==
    /\ \E pn \in ProcessInputs, u \in ProcessUnits : add_lci_process_column(pn, u)
    /\ UNCHANGED <<history, disk>>
SetValue ==
    /\ \E fn \in FlowInputs, pn \in ProcessInputs, v \in ValueTexts :
          set_lci_value(fn, pn, v)
    /\ UNCHANGED <<history, disk>>
RemoveFlow ==
    /\ \E fn \in FlowInputs : remove_lci_input_flow(fn)
    /\ UNCHANGED <<history, disk>>
RemoveProcess ==
    /\ \E pn \in ProcessInputs : remove_lci_process_column(pn)
    /\ UNCHANGED <<history, disk>>
AddTransformity ==
    /\ \E v \in TfTexts : add_transformity(Sun, v, <<>>)
    /\ UNCHANGED <<history, disk>>
RemoveTransformity ==
    /\ remove_transformity(Sun)
    /\ UNCHANGED <<history, disk>>
ClearAll ==
    /\ clear_all_data
    /\ UNCHANGED <<history, disk>>
LoadSnapshot ==
    /\ \E filepath \in DOMAIN Snapshots :
          load_data_from_json(disk @@ Snapshots, filepath)
    /\ UNCHANGED <<history, disk>>

Next ==
    \/ AddFlow
    \/ AddProcess
    \/ SetValue
    \/ RemoveFlow
    \/ RemoveProcess
    \/ AddTransformity
    \/ RemoveTransformity
    \/ ClearAll
    \/ LoadSnapshot

Spec == Init /\ [][Next]_vars

\* One add call, the setValue calls on the cells of the added name, and one
\* remove call, on a store the operations build: flows among Sun and 'A B',
\* at most the process Widget, cells unset or set.
InitRoundTrip ==
    /\ lci_index \in DistinctSeqs({Sun, A_sp_B}, MaxFlows)
    /\ lci_columns \in DistinctSeqs({Widget}, 1)
    /\ lci_data \in [1..Len(lci_index) -> [1..Len(lci_columns) -> CellValues]]
    /\ lci_units = [nm \in Range(lci_index) \cup Range(lci_columns) |->
                       IF nm \in Range(lci_index) THEN kg ELSE <<>>]
    /\ transformities = EmptyDict
    /\ parameters = EmptyDict
    /\ disk = EmptyDict
    /\ NoCall

\* what an add call finds: the matrix, the trimmed name, and whether that
\* name is valid and not yet on the axis
found(call, axis, name) ==
    [call |-> call, name |-> Strip(name), stage |-> "added",
     fresh |-> Strip(name) # <<>> /\ Strip(name) \notin Range(axis),
     index |-> lci_index, columns |-> lci_columns, data |-> lci_data]

TripAddFlow ==
    \E fn \in FlowInputs, u \in FlowUnits :
        /\ before.stage = "none"
        /\ add_lci_input_flow(fn, u)
        /\ before' = found("add_lci_input_flow", lci_index, fn)
        /\ UNCHANGED <<prevCall, disk>>

TripAddProcess ==
    \E pn \in ProcessInputs, u \in ProcessUnits :
        /\ before.stage = "none"
        /\ add_lci_process_column(pn, u)
        /\ before' = found("add_lci_process_column", lci_columns, pn)
        /\ UNCHANGED <<prevCall, disk>>

\* setValue on a cell of the flow or process the last add call named
TripSetValue ==
    \E fn \in FlowInputs, pn \in ProcessInputs, v \in ValueTexts :
        /\ before.stage = "added"
        /\ \/ before.call = "add_lci_input_flow" /\ Strip(fn) = before.name
           \/ before.call = "add_lci_process_column" /\ Strip(pn) = before.name
        /\ set_lci_value(fn, pn, v)
        /\ UNCHANGED <<history, disk>>

\* the remove call after the add call
followed == [before EXCEPT !.stage = "removed"]

TripRemoveFlow ==
    /\ before.stage = "added"
    /\ \E fn \in FlowInputs : remove_lci_input_flow(fn)
    /\ before' = followed
    /\ UNCHANGED <<prevCall, disk>>

TripRemoveProcess ==
    /\ before.stage = "added"
    /\ \E pn \in ProcessInputs : remove_lci_process_column(pn)
    /\ before' = followed
    /\ UNCHANGED <<prevCall, disk>>

NextRoundTrip ==
    \/ TripAddFlow
    \/ TripAddProcess
    \/ TripSetValue
    \/ TripRemoveFlow
    \/ TripRemoveProcess

SpecRoundTrip == InitRoundTrip /\ [][NextRoundTrip]_vars

\* the call that is now the one before the last
preceding == [call |-> lastCall, ret |-> ret]

\* Sessions saved and loaded: a store the operations build (flows among
\* Sun and 'A B', at most the process Widget, cells unset or set), the
\* files found on disk, and the files save_data_to_json writes.
SessionFiles ==
    (<<"text_cell">> :>
        [lci_data |-> Matrix(<<Sun, A_sp_B>>, <<Widget>>,
                             <<<<JsonString("abc")>>, <<JsonNumber(Fin(100))>>>>),
         lci_units |-> NoUnits, transformities |-> SunTable])
    @@ (<<"twin_columns">> :>
        [lci_data |-> Matrix(<<Sun>>, <<Widget, Widget>>,
                             <<<<JsonNumber(Fin(100)), JsonNull>>>>),
         lci_units |-> EmptyDict, transformities |-> EmptyDict])
    @@ (<<"ragged">> :>
        [lci_data |-> Matrix(<<Sun, A_sp_B>>, <<Widget>>,
                             <<<<JsonNumber(Fin(100))>>>>),
         lci_units |-> NoUnits, transformities |-> EmptyDict])

SavePaths == {<<"session">>} \cup Unwritable

InitSessions ==
    /\ lci_index \in DistinctSeqs({Sun, A_sp_B}, MaxFlows)
    /\ lci_columns \in DistinctSeqs({Widget}, 1)
    /\ lci_data \in [1..Len(lci_index) -> [1..Len(lci_columns) -> CellValues]]
    /\ lci_units = [nm \in Range(lci_index) \cup Range(lci_columns) |->
                       IF nm \in Range(lci_index) THEN kg ELSE <<>>]
    /\ transformities \in {EmptyDict, SunTable}
    /\ parameters = EmptyDict
    /\ disk = EmptyDict
    /\ NoCall

SessionSave ==
    /\ \E filepath \in SavePaths : save_data_to_json(filepath)
    /\ prevCall' = preceding
    /\ UNCHANGED before

SessionLoad ==
    /\ \E filepath \in DOMAIN (disk @@ SessionFiles) :
          load_data_from_json(disk @@ SessionFiles, filepath)
    /\ prevCall' = preceding
    /\ UNCHANGED <<before, disk>>

SessionClear ==
    /\ clear_all_data
    /\ prevCall' = preceding
    /\ UNCHANGED <<before, disk>>

NextSessions ==
    \/ SessionSave
    \/ SessionLoad
    \/ SessionClear

SpecSessions == InitSessions /\ [][NextSessions]_vars

\* The transformity table under add_transformity and remove_transformity,
\* beside a matrix of at most one flow and one process.
sej_per_kg == <<"s", "e", "j", "/", "k", "g">>

TableNames == {Sun, SunPadded, A_sp_B, Blank}
TableTexts == {"1500", "2000", "abc"}
TableUnits == {<<>>, sej_per_kg}

InitTable ==
    /\ lci_index \in DistinctSeqs({Sun}, MaxFlows)
    /\ lci_columns \in DistinctSeqs({Widget}, 1)
    /\ lci_data \in [1..Len(lci_index) -> [1..Len(lci_columns) -> CellValues]]
    /\ lci_units = [nm \in Range(lci_index) \cup Range(lci_columns) |-> kg]
    /\ transformities = EmptyDict
    /\ parameters = EmptyDict
    /\ disk = EmptyDict
    /\ NoCall

TableAdd ==
    /\ \E fn \in TableNames, v \in TableTexts, u \in TableUnits :
          add_transformity(fn, v, u)
    /\ prevCall' = preceding
    /\ UNCHANGED <<before, disk>>

TableRemove ==
    /\ \E fn \in TableNames : remove_transformity(fn)
    /\ prevCall' = preceding
    /\ UNCHANGED <<before, disk>>

NextTable == TableAdd \/ TableRemove

SpecTable == InitTable /\ [][NextTable]_vars

\* Calls of calculate_emergy one after the other, in any mode, with the
\* bag changing between them, on a store of at most one flow and one
\* process.
RunBags ==
    { EmptyDict,
      (ParamKey(Sun) :> "2000"),
      (ParamKey(Sun) :> "abc"),
      (KeyR :> "100") @@ (KeyN :> "50") @@ (KeyF :> "25"),
      (KeyR :> "100") @@ (KeyN :> "abc") @@ (KeyF :> "25") }

InitRuns ==
    /\ lci_index \in DistinctSeqs({Sun}, MaxFlows)
    /\ lci_columns \in DistinctSeqs({Widget}, 1)
    /\ lci_data \in [1..Len(lci_index) -> [1..Len(lci_columns) -> CellValues]]
    /\ lci_units = [nm \in Range(lci_index) \cup Range(lci_columns) |-> <<>>]
    /\ transformities \in {EmptyDict, SunTable}
    /\ parameters \in RunBags
    /\ disk = EmptyDict
    /\ NoCall

\* the entries of the simulation tab are edited
EnterParameters ==
    /\ \E p \in RunBags : parameters' = p
    /\ UNCHANGED <<store, results, lastCall, args, history, ret, messagebox, frame,
                   disk>>

RunTotalEmergy ==
    /\ calculate_emergy(TOTAL_EMERGY)
    /\ prevCall' = preceding
    /\ UNCHANGED <<before, args, disk>>

RunDirectInputsSum ==
    /\ calculate_emergy(DIRECT_INPUTS_SUM)
    /\ prevCall' = preceding
    /\ UNCHANGED <<before, args, disk>>

RunEmergyIndices ==
    /\ calculate_emergy(EMERGY_INDICES)
    /\ prevCall' = preceding
    /\ UNCHANGED <<before, args, disk>>

RunInvalidType ==
    /\ calculate_emergy_invalid_type
    /\ prevCall' = preceding
    /\ UNCHANGED <<before, args, disk>>

NextRuns ==
    \/ EnterParameters
    \/ RunTotalEmergy
    \/ RunDirectInputsSum
    \/ RunEmergyIndices
    \/ RunInvalidType

SpecRuns == InitRuns /\ [][NextRuns]_vars

\* ------------------------------------------------------------------------
\* Claims about the matrix modes (SpecCalc)
\* ------------------------------------------------------------------------

Rows == 1..Len(lci_index)
Cols == 1..Len(lci_columns)

RECURSIVE SumInts(_)
SumInts(q) == IF q = <<>> THEN 0 ELSE Head(q) + SumInts(Tail(q))

\* the value of cell (i, j) as a number, an unset cell counting as 0
CellNumber(i, j) == IF IsNaN(lci_data[i][j]) THEN 0 ELSE lci_data[i][j].n

\* the state of a flow in the bag and in the table
OverrideGiven(fn)     == ParamKey(fn) \in DOMAIN parameters
OverrideIsNumber(fn)  == OverrideGiven(fn) /\ parameters[ParamKey(fn)] \in DOMAIN FloatLiterals
OverrideMalformed(fn) == OverrideGiven(fn) /\ parameters[ParamKey(fn)] \notin DOMAIN FloatLiterals
InTable(fn)           == fn \in DOMAIN transformities
Unresolved(fn)        == ~OverrideGiven(fn) /\ ~InTable(fn)

UnresolvedFlows == {lci_index[i] : i \in {k \in Rows : Unresolved(lci_index[k])}}
MalformedFlows  == {lci_index[i] : i \in {k \in Rows : OverrideMalformed(lci_index[k])}}

NoEmergyOutputs == K_EMERGY \notin DOMAIN results /\ K_TOTAL \notin DOMAIN results

TotalSucceeded == lastCall = TOTAL_EMERGY /\ ret /\ lci_index # <<>>

\* the sources the summary of the last call logs, per flow
LoggedSource(fn) ==
    {results[K_SUMMARY][2].log[k].source :
        k \in {m \in 1..Len(results[K_SUMMARY][2].log) :
                  results[K_SUMMARY][2].log[m].flow = fn}}

\* C1: after a successful total-emergy run, a flow whose sanitized override
\* key is in the bag with a numeric value is weighted with that value (in
\* the transformity vector and in every contribution of its row), whether
\* or not the table has an entry for it; the table value is used, and
\* logged as the source, only when the bag has no override key for the flow.
C1_OverrideWins ==
    TotalSucceeded =>
        \A i \in Rows :
            LET fn == lci_index[i]
                manual == FloatLiterals[parameters[ParamKey(fn)]]
            IN  /\ OverrideIsNumber(fn) =>
                      /\ frame.tf_vector[i] = manual
                      /\ LoggedSource(fn) = {"manual"}
                      /\ \A j \in Cols :
                            results[K_EMERGY].data[i][j]
                                = Fin(CellNumber(i, j) * manual.n)
                /\ ~OverrideGiven(fn) =>
                      /\ frame.tf_vector[i] = transformities[fn].value
                      /\ LoggedSource(fn) = {"tabela"}
                /\ "tabela" \in LoggedSource(fn) => ~OverrideGiven(fn)

\* C1 witness: Sun has the table entry 1.5e3 and the override 2000, and a
\* cell of 100 in its row contributes 100 x 2000.
C1_Witness ==
    /\ TotalSucceeded
    /\ \E i \in Rows : \E j \in Cols :
          /\ lci_index[i] = Sun
          /\ InTable(Sun) /\ transformities[Sun].value = Fin(1500)
          /\ OverrideGiven(Sun) /\ parameters[ParamKey(Sun)] = "2000"
          /\ lci_data[i][j] = Fin(100)
          /\ frame.tf_vector[i] = Fin(2000)
          /\ results[K_EMERGY].data[i][j] = Fin(200000)

\* every unresolved flow is named by a "Transformidades Faltando" report
UnresolvedAllNamed ==
    \A fn \in UnresolvedFlows :
        \E k \in 1..Len(messagebox) :
            /\ messagebox[k].title = "Transformidades Faltando"
            /\ fn \in Range(messagebox[k].flows)

\* C2 as claimed: in total-emergy mode with at least one flow, if some flow
\* has neither an override key nor a table entry, the call fails, produces
\* no contribution table and no totals, and the reported error names every
\* unresolved flow.
C2_UnresolvedFailsAndAllNamed ==
    (lastCall = TOTAL_EMERGY /\ UnresolvedFlows # {}) =>
        /\ ~ret
        /\ NoEmergyOutputs
        /\ UnresolvedAllNamed

\* C2 as amended: the call fails and produces no contribution table and no
\* totals; the reported error names every unresolved flow when no flow has
\* a malformed override, and otherwise the malformed-override error is the
\* one reported.
C2_UnresolvedFailsNamedUnlessMalformed ==
    (lastCall = TOTAL_EMERGY /\ UnresolvedFlows # {}) =>
        /\ ~ret
        /\ NoEmergyOutputs
        /\ MalformedFlows = {} => UnresolvedAllNamed
        /\ MalformedFlows # {} =>
              /\ Len(messagebox) = 1
              /\ messagebox[1].title = "Erro nos Parametros de Transformidade"

\* C2 witness: two unresolved flows, no malformed override, both named.
C2_Witness ==
    /\ lastCall = TOTAL_EMERGY
    /\ Cardinality(UnresolvedFlows) = 2
    /\ MalformedFlows = {}
    /\ ~ret
    /\ Len(messagebox) = 1
    /\ Range(messagebox[1].flows) = UnresolvedFlows

\* C3: if the override key of some flow is present and does not parse, the
\* total-emergy run fails with the one error that lists every malformed
\* override, also when other flows are unresolved, and nothing is computed;
\* so no successful run has a flow with a malformed override that was
\* resolved from the table.
C3_MalformedOverrideFails ==
    /\ (lastCall = TOTAL_EMERGY /\ MalformedFlows # {}) =>
          /\ ~ret
          /\ NoEmergyOutputs
          /\ Len(messagebox) = 1
          /\ messagebox[1].title = "Erro nos Parametros de Transformidade"
          /\ {messagebox[1].errors[k].flow : k \in 1..Len(messagebox[1].errors)}
                = MalformedFlows
    /\ (lastCall = TOTAL_EMERGY /\ ret) => MalformedFlows = {}

\* C3 witness: a flow with a malformed override that also has a table entry,
\* beside an unresolved flow; the malformed-override error is shown.
C3_Witness ==
    /\ lastCall = TOTAL_EMERGY
    /\ \E fn \in MalformedFlows : InTable(fn)
    /\ UnresolvedFlows # {}
    /\ ~ret
    /\ messagebox[1].title = "Erro nos Parametros de Transformidade"

\* the transformity the claim says is used for a flow
ClaimedTransformity(fn) ==
    IF OverrideGiven(fn) THEN FloatLiterals[parameters[ParamKey(fn)]]
    ELSE transformities[fn].value

\* C4: when total-emergy succeeds on a matrix with at least one flow and one
\* process, contribution[f, p] = M[f, p] x transformity[f] with unset cells
\* as 0, and total[p] is the sum of contribution[f, p] over all flows.
C4_ContributionsAndTotals ==
    (TotalSucceeded /\ lci_columns # <<>>) =>
        /\ results[K_EMERGY].index = lci_index
        /\ results[K_EMERGY].columns = lci_columns
        /\ results[K_TOTAL].index = lci_columns
        /\ \A i \in Rows : \A j \in Cols :
              results[K_EMERGY].data[i][j]
                  = Fin(CellNumber(i, j) * ClaimedTransformity(lci_index[i]).n)
        /\ \A j \in Cols :
              results[K_TOTAL].data[j]
                  = Fin(SumInts([i \in Rows |->
                           CellNumber(i, j) * ClaimedTransformity(lci_index[i]).n]))

\* C4 witness: Sun over Widget = 100 with transformity 1.5e3 gives the
\* contribution 1.5e5, in a column of two flows whose total is their sum.
C4_Witness ==
    /\ TotalSucceeded
    /\ Len(lci_index) = 2
    /\ \E i \in Rows : \E j \in Cols :
          /\ lci_index[i] = Sun /\ lci_columns[j] = Widget
          /\ lci_data[i][j] = Fin(100)
          /\ ~OverrideGiven(Sun) /\ transformities[Sun].value = Fin(1500)
          /\ results[K_EMERGY].data[i][j] = Fin(150000)
          /\ \E i2 \in Rows \ {i} :
                /\ lci_data[i2][j] = Fin(100)
                /\ results[K_TOTAL].data[j] = Fin(350000)

\* C5: direct-inputs-sum never fails; with at least one flow and one process
\* the output of a process is the sum of its column with unset cells as 0;
\* with zero flows every process gets 0, and the series is empty when there
\* is no process either; the summary has an explanatory line.
C5_DirectInputsSum ==
    lastCall = DIRECT_INPUTS_SUM =>
        /\ ret
        /\ messagebox = <<>>
        /\ results[K_SUM].index = lci_columns
        /\ Len(results[K_SUM].data) = Len(lci_columns)
        /\ lci_index # <<>> =>
              \A j \in Cols :
                  results[K_SUM].data[j] = Fin(SumInts([i \in Rows |-> CellNumber(i, j)]))
        /\ lci_index = <<>> =>
              \A j \in Cols : results[K_SUM].data[j] = Fin(0)
        /\ Len(results[K_SUMMARY]) = 2
        /\ results[K_SUMMARY][2].msg
              = IF lci_index # <<>> /\ lci_columns # <<>>
                THEN "Soma dos inputs diretos por processo calculada"
                ELSE IF lci_index = <<>> /\ lci_columns # <<>>
                THEN "Matriz LCI nao possui fluxos de entrada. A soma dos inputs diretos e zero"
                ELSE "Matriz LCI esta completamente vazia. A soma dos inputs diretos e zero"

\* C5 witness: two flows over two processes, one column [100, unset] and the
\* other [100, 100]: the sums are 100 and 200.
C5_Witness ==
    /\ lastCall = DIRECT_INPUTS_SUM
    /\ Len(lci_index) = 2 /\ Len(lci_columns) = 2
    /\ lci_data = <<<<Fin(100), Fin(100)>>, <<NaN, Fin(100)>>>>
    /\ results[K_SUM].data = <<Fin(100), Fin(200)>>

\* the bag without the override key of the flow fn
BagWithoutOverrideOf(fn) == without(parameters, ParamKey(fn))

\* C29: an override affects only the flow it is given for.  After a
\* successful total-emergy run, for any two distinct flows of the matrix,
\* the first with an override key in the bag, the transformity used for
\* the second is the one the resolver takes for it from the bag without
\* the key of the first: its own override, or its own table entry.
C29_OverrideOnlyItsFlow ==
    TotalSucceeded =>
        \A i \in Rows : \A k \in Rows :
            LET given == lci_index[i]
                other == lci_index[k]
                bag == BagWithoutOverrideOf(given)
            IN  (/\ given # other
                 /\ OverrideGiven(given)
                 /\ manual_parses(other, bag) \/ table_used(other, bag))
                => frame.tf_vector[k] = resolved_value(other, bag)

\* the resolver was called by the last total-emergy run and gave a map
ResolverSucceeded ==
    /\ lastCall = TOTAL_EMERGY
    /\ frame.logic = "total"
    /\ "required_tfs" \in DOMAIN frame

DimensionError == [kind |-> "showerror", title |-> "Erro de Dimensao no Calculo"]

\* C30: the dimension-mismatch failure of total-emergy is unreachable.
\* Whenever the resolver succeeds, the transformity vector has one entry
\* per row of the matrix, every flow of the matrix is in the resolved map
\* (the fallback value 0 is never used), and the run succeeds without
\* the dimension error.
C30_NoDimensionMismatch ==
    ResolverSucceeded =>
        /\ Len(frame.tf_vector) = Len(lci_index)
        /\ Len(frame.tf_vector) = Len(lci_data)
        /\ \A i \in Rows :
              /\ lci_index[i] \in DOMAIN frame.required_tfs
              /\ frame.tf_vector[i] = frame.required_tfs[lci_index[i]]
        /\ ret
        /\ \A k \in 1..Len(messagebox) : messagebox[k] # DimensionError

\* C30 witness: the resolver succeeded for two flows, one by its override
\* and one by its table entry, and the vector has their two values.
C30_Witness ==
    /\ ResolverSucceeded
    /\ lci_index = <<Sun, A_sp_B>> /\ Len(lci_columns) = 1
    /\ OverrideGiven(Sun) /\ ~OverrideGiven(A_sp_B)
    /\ frame.tf_vector = <<Fin(2000), Fin(1500)>>

\* ------------------------------------------------------------------------
\* Claims about the indices mode (SpecIndices)
\* ------------------------------------------------------------------------

IndicesSucceeded == lastCall = EMERGY_INDICES /\ ret

\* the float the bag holds under a key that parses
Given(key) == FloatLiterals[parameters[key]]

\* x is the float quotient y / z of a nonzero z: the exact quotient of two
\* finite values, and the IEEE result when a NaN or an infinity is involved
IsQuotient(x, y, z) ==
    IF IsNaN(y) \/ IsNaN(z) THEN IsNaN(x)
    ELSE IF IsInf(y) /\ IsInf(z) THEN IsNaN(x)
    ELSE IF IsInf(y) THEN x = (IF (y.n > 0) = (z.n > 0) THEN PosInf ELSE NegInf)
    ELSE IF IsInf(z) THEN x = Fin(0)
    ELSE IsFinite(x) /\ x.n * z.n * y.d = y.n * z.d * x.d

\* x is the float sum a + b of two values that are not negative
IsSum(x, a, b) ==
    IF IsNaN(a) \/ IsNaN(b) THEN IsNaN(x)
    ELSE IF IsInf(a) \/ IsInf(b) THEN x = PosInf
    ELSE IsFinite(x) /\ x.n * a.d * b.d = (a.n * b.d + b.n * a.d) * x.d

Positive(x) == ~IsNaN(x) /\ x.n > 0
IsZero(x)   == x = Fin(0)

\* C6: ESI = EYR / ELR when ELR is finite and nonzero and EYR is not NaN;
\* ESI = +inf when ELR = 0 and EYR is not NaN and > 0; ESI is NaN in every
\* other case, so whenever ELR is infinite and whenever EYR is NaN.  The
\* bundle holds the formatted value.
C6_EsiBranches ==
    IndicesSucceeded =>
        LET eyr == frame.eyr
            elr == frame.elr
            esi == frame.esi
            quotient == IsFinite(elr) /\ ~IsZero(elr) /\ ~IsNaN(eyr)
            infinite == IsZero(elr) /\ Positive(eyr)
        IN  /\ quotient => IsQuotient(esi, eyr, elr)
            /\ infinite => esi = PosInf
            /\ (~quotient /\ ~infinite) => IsNaN(esi)
            /\ IsInf(elr) => IsNaN(esi)
            /\ IsNaN(eyr) => IsNaN(esi)
            /\ results[K_ESI] = Format2e(esi)

\* C6 witness: R = 0, N = 10, F = 0 and no Y: EYR = +inf, ELR = +inf and
\* ESI is NaN.
C6_Witness ==
    /\ IndicesSucceeded
    /\ parameters = (KeyR :> "0") @@ (KeyN :> "10") @@ (KeyF :> "0")
    /\ frame.eyr = PosInf /\ frame.elr = PosInf /\ IsNaN(frame.esi)
    /\ results[K_ESI].text = "nan"

\* C7: for validated inputs, EYR = Y / F when F is nonzero; when F = 0,
\* EYR = +inf if Y > 0 and NaN if Y = 0.
C7_Eyr ==
    IndicesSucceeded =>
        LET Y == frame.Y
            F == Given(KeyF)
            eyr == frame.eyr
        IN  /\ ~IsZero(F) => IsQuotient(eyr, Y, F)
            /\ (IsZero(F) /\ Positive(Y)) => eyr = PosInf
            /\ (IsZero(F) /\ IsZero(Y)) => IsNaN(eyr)
            /\ results[K_EYR] = Format2e(eyr)

\* C7 witness: R = 100, N = 50, F = 25 and no Y: Y = 175 and EYR = 7;
\* and the bundle holds 7.00e+00.
C7_Witness ==
    /\ IndicesSucceeded
    /\ parameters = (KeyR :> "100") @@ (KeyN :> "50") @@ (KeyF :> "25")
    /\ frame.Y = Fin(175)
    /\ frame.eyr = Fin(7)
    /\ results[K_EYR] = [text |-> "num", mant |-> 700, exp |-> 0]

\* C8: for validated inputs, ELR = (N + F) / R when R is nonzero; when
\* R = 0, ELR = +inf if N + F > 0 and ELR = 0 if N + F = 0.
C8_Elr ==
    IndicesSucceeded =>
        LET R == Given(KeyR)
            N == Given(KeyN)
            F == Given(KeyF)
            elr == frame.elr
        IN  /\ ~IsZero(R) =>
                  \E nf \in {FAdd(N, F)} : IsSum(nf, N, F) /\ IsQuotient(elr, nf, R)
            /\ (IsZero(R) /\ \E nf \in {FAdd(N, F)} : IsSum(nf, N, F) /\ Positive(nf))
                  => elr = PosInf
            /\ (IsZero(R) /\ IsZero(N) /\ IsZero(F)) => elr = Fin(0)
            /\ results[K_ELR] = Format2e(elr)

\* C8 witness: R = 100, N = 50, F = 25: ELR = 75 / 100 = 0.75, and with
\* EYR = 7 the bundle holds ESI = 9.33e+00.
C8_Witness ==
    /\ IndicesSucceeded
    /\ parameters = (KeyR :> "100") @@ (KeyN :> "50") @@ (KeyF :> "25")
    /\ frame.elr = [n |-> 3, d |-> 4]
    /\ results[K_ELR] = [text |-> "num", mant |-> 750, exp |-> -1]
    /\ results[K_ESI] = [text |-> "num", mant |-> 933, exp |-> 0]

\* what the claims call a missing, a non-numeric and a negative parameter
ParamAbsent(key)     == key \notin DOMAIN parameters \/ parameters[key] \in {"", " "}
ParamNonNumeric(key) == ~ParamAbsent(key) /\ parameters[key] \notin DOMAIN FloatLiterals
ParamNegative(key)   == ~ParamAbsent(key) /\ ~ParamNonNumeric(key) /\ Given(key).n < 0
ParamInvalid(key)    == ParamAbsent(key) \/ ParamNonNumeric(key) \/ ParamNegative(key)

\* the parameter parses and its value is >= 0
ParamAtLeastZero(key) ==
    /\ ~ParamAbsent(key) /\ ~ParamNonNumeric(key)
    /\ ~IsNaN(Given(key)) /\ Given(key).n >= 0

NoIndexOutputs ==
    /\ K_EYR \notin DOMAIN results
    /\ K_ELR \notin DOMAIN results
    /\ K_ESI \notin DOMAIN results

\* C9 as claimed: the indices mode succeeds only if each of R, N and F is
\* present, parses and is >= 0; and with one of them absent, non-numeric or
\* negative the call fails and writes no EYR, ELR or ESI to the bundle.
C9_SucceedsOnlyIfValid ==
    lastCall = EMERGY_INDICES =>
        /\ ret => \A key \in {KeyR, KeyN, KeyF} : ParamAtLeastZero(key)
        /\ (\E key \in {KeyR, KeyN, KeyF} : ParamInvalid(key)) =>
              ~ret /\ NoIndexOutputs

InvalidRequired == {i \in 1..3 : ParamInvalid(RequiredKeys[i])}

\* C10 as claimed: with more than one of R, N, F invalid in one call, the
\* failure reports one error per invalid parameter.
C10_EachViolationReported ==
    (lastCall = EMERGY_INDICES /\ Cardinality(InvalidRequired) > 1) =>
        \A i \in InvalidRequired :
            \E k \in 1..Len(messagebox) : messagebox[k].param = RequiredKeys[i]

\* C10 as amended: with one or more of R, N, F invalid in one call, the
\* call fails and reports exactly one error, that of the first invalid
\* parameter in the order R, N, F.
C10_FirstViolationReported ==
    (lastCall = EMERGY_INDICES /\ InvalidRequired # {}) =>
        /\ ~ret
        /\ Len(messagebox) = 1
        /\ messagebox[1].kind = "showerror"
        /\ \E i \in InvalidRequired :
              /\ \A j \in InvalidRequired : i <= j
              /\ messagebox[1].param = RequiredKeys[i]
              /\ messagebox[1].reason =
                    IF ParamAbsent(RequiredKeys[i]) THEN "absent"
                    ELSE IF ParamNonNumeric(RequiredKeys[i]) THEN "non_numeric"
                    ELSE "negative"

\* C10 witness: R is negative and F is not numeric; the one error shown is
\* that of R.
C10_Witness ==
    /\ lastCall = EMERGY_INDICES
    /\ ParamNegative(KeyR) /\ ~ParamInvalid(KeyN) /\ ParamNonNumeric(KeyF)
    /\ ~ret
    /\ Len(messagebox) = 1
    /\ messagebox[1].param = KeyR

\* C13: total-emergy on a matrix with neither flows nor processes is a hard
\* failure: the call returns False and the bundle holds neither a
\* contribution table nor per-process totals.
C13_EmptyMatrixFails ==
    (lastCall = TOTAL_EMERGY /\ lci_index = <<>> /\ lci_columns = <<>>) =>
        /\ ~ret
        /\ NoEmergyOutputs
        /\ Len(messagebox) = 1
        /\ messagebox[1].kind = "showerror"
        /\ messagebox[1].title = "Dados Insuficientes para Calculo"

\* C13 witness: total-emergy was called on the empty matrix, with a table
\* entry and an override at hand, and failed.
C13_Witness ==
    /\ lastCall = TOTAL_EMERGY
    /\ lci_index = <<>> /\ lci_columns = <<>>
    /\ Sun \in DOMAIN transformities
    /\ ParamKey(Sun) \in DOMAIN parameters
    /\ ~ret
    /\ DOMAIN results = {K_SUMMARY}

\* C14: total-emergy on a matrix with processes and no flows succeeds
\* without consulting the resolver, with a total of 0 for every process and
\* a contribution table that has the processes as columns and no rows.
C14_NoFlowsZeroTotals ==
    (lastCall = TOTAL_EMERGY /\ lci_index = <<>> /\ lci_columns # <<>>) =>
        /\ ret
        /\ ~frame.resolver
        /\ results[K_TOTAL].index = lci_columns
        /\ \A j \in Cols : results[K_TOTAL].data[j] = Fin(0)
        /\ results[K_EMERGY].columns = lci_columns
        /\ results[K_EMERGY].index = <<>>
        /\ results[K_EMERGY].data = <<>>

\* C14 witness: two processes and no flow, and a malformed override in the
\* bag that the resolver would have rejected for a flow of that name.
C14_Witness ==
    /\ lastCall = TOTAL_EMERGY
    /\ lci_index = <<>> /\ Len(lci_columns) = 2
    /\ ParamKey(Sun) \in DOMAIN parameters /\ parameters[ParamKey(Sun)] = "abc"
    /\ ret
    /\ results[K_TOTAL].data = <<Fin(0), Fin(0)>>

\* C11: with R, N and F valid, the yield used for EYR is R + N + F when Y
\* is absent or blank and the supplied value when Y is present; a present Y
\* that does not parse or is negative makes the call fail.
C11_YieldUsed ==
    (lastCall = EMERGY_INDICES /\ \A key \in {KeyR, KeyN, KeyF} : ~ParamInvalid(key)) =>
        LET R == Given(KeyR)
            N == Given(KeyN)
            F == Given(KeyF)
        IN  /\ ParamAbsent(KeyY) =>
                  /\ ret
                  /\ \E rn \in {FAdd(R, N)} :
                        IsSum(rn, R, N) /\ IsSum(frame.Y, rn, F)
            /\ (~ParamAbsent(KeyY) /\ ~ParamNonNumeric(KeyY) /\ ~ParamNegative(KeyY)) =>
                  ret /\ frame.Y = Given(KeyY)
            /\ (ParamNonNumeric(KeyY) \/ ParamNegative(KeyY)) =>
                  ~ret /\ NoIndexOutputs
            /\ (ret /\ ~IsZero(F)) =>
                  /\ IsQuotient(frame.eyr, frame.Y, F)
                  /\ results[K_EYR] = Format2e(frame.eyr)

\* C11 witness: R = 100, N = 50, F = 25 and Y = 100 supplied: the yield is
\* 100, not 175, and EYR = 4.
C11_Witness ==
    /\ IndicesSucceeded
    /\ parameters = (KeyR :> "100") @@ (KeyN :> "50") @@ (KeyF :> "25")
                    @@ (KeyY :> "100")
    /\ frame.Y = Fin(100)
    /\ frame.eyr = Fin(4)
    /\ results[K_EYR] = [text |-> "num", mant |-> 400, exp |-> 0]

\* ------------------------------------------------------------------------
\* Claims about the store operations (Spec)
\* ------------------------------------------------------------------------

\* the name argument of the last call, trimmed
TrimmedName == Strip(args[1])

\* C15 as claimed: addFlow with a name that is non-empty after trimming and
\* not already a row succeeds also when the matrix has no processes: it
\* returns true and afterwards the flow is a row, listed among the row
\* names, with zero columns.  A refusal is then that of a duplicate.
C15_AddFlowWithoutProcesses ==
    (lastCall = "add_lci_input_flow" /\ TrimmedName # <<>> /\ lci_columns = <<>>) =>
        /\ TrimmedName \in Range(get_lci_names_for_calc.rows)
        /\ \A i \in 1..Len(lci_index) : lci_data[i] = <<>>
        /\ ret \/ (Len(messagebox) = 1 /\ messagebox[1].title = "Fluxo Existente")

\* every (flow, process) pair has a cell
Rectangular ==
    /\ Len(lci_data) = Len(lci_index)
    /\ \A i \in 1..Len(lci_index) : Len(lci_data[i]) = Len(lci_columns)

FlowAdded    == lastCall' = "add_lci_input_flow" /\ ret'
ProcessAdded == lastCall' = "add_lci_process_column" /\ ret'

\* C16: a successful addFlow appends one row with a cell for every existing
\* process, each unset, and a successful addProcess appends one unset cell
\* to every existing row; both leave every cell that existed with its prior
\* content, and the matrix is rectangular before and after every step.
C16_AddBackfillsUnset ==
    [][/\ Rectangular /\ Rectangular'
       /\ FlowAdded =>
            /\ lci_index' = Append(lci_index, Strip(args'[1]))
            /\ lci_columns' = lci_columns
            /\ \A i \in 1..Len(lci_index) : lci_data'[i] = lci_data[i]
            /\ \A j \in 1..Len(lci_columns) : IsNaN(lci_data'[Len(lci_index')][j])
       /\ ProcessAdded =>
            /\ lci_columns' = Append(lci_columns, Strip(args'[1]))
            /\ lci_index' = lci_index
            /\ \A i \in 1..Len(lci_index) :
                  /\ \A j \in 1..Len(lci_columns) : lci_data'[i][j] = lci_data[i][j]
                  /\ IsNaN(lci_data'[i][Len(lci_columns')])
      ]_vars

\* C16 witness: a second flow was added to a matrix of two processes whose
\* first row holds a set cell; the new row has two unset cells and the set
\* cell is still there.
C16_Witness ==
    /\ lastCall = "add_lci_input_flow" /\ ret
    /\ Len(lci_index) = 2 /\ Len(lci_columns) = 2
    /\ lci_data[1][1] = Fin(100)
    /\ IsNaN(lci_data[2][1]) /\ IsNaN(lci_data[2][2])

\* C17 as claimed: in every reachable state every cell is unset or a finite
\* number, and after a setValue that returned true the addressed cell is
\* set.
C17_CellsFiniteOrUnset ==
    /\ \A i \in 1..Len(lci_index) : \A j \in 1..Len(lci_columns) :
          IsNaN(lci_data[i][j]) \/ IsFinite(lci_data[i][j])
    /\ (lastCall = "set_lci_value" /\ ret) =>
          \A i \in 1..Len(lci_index) : \A j \in 1..Len(lci_columns) :
              (lci_index[i] = Strip(args[1]) /\ lci_columns[j] = Strip(args[2]))
                  => ~IsNaN(lci_data[i][j])

\* the labels of an axis are pairwise distinct, non-empty and trimmed
WellNamed(axis) ==
    /\ \A i, k \in 1..Len(axis) : i # k => axis[i] # axis[k]
    /\ \A i \in 1..Len(axis) : axis[i] # <<>> /\ Strip(axis[i]) = axis[i]

\* C18 as claimed: in every reachable state of the store the flow names are
\* pairwise distinct, the process names are pairwise distinct, every name
\* is non-empty and has no surrounding whitespace; and a name that differs
\* from a row only in case is a name of its own, which addFlow accepts.
C18_NamesDistinctTrimmed ==
    /\ WellNamed(lci_index)
    /\ WellNamed(lci_columns)
    /\ (lastCall = "add_lci_input_flow" /\ TrimmedName = sun /\ lci_columns # <<>>)
          => sun \in Range(lci_index)

\* the positions of an axis that do not carry a name, and the place a kept
\* position takes once the others are gone
Kept(axis, name) == {i \in 1..Len(axis) : axis[i] # name}
Rank(i, K) == Cardinality({k \in K : k <= i})

UnitsWithout(name) ==
    /\ DOMAIN lci_units' = DOMAIN lci_units \ {name}
    /\ \A nm \in DOMAIN lci_units' : lci_units'[nm] = lci_units[nm]

FlowRemoval    == lastCall' = "remove_lci_input_flow"
ProcessRemoval == lastCall' = "remove_lci_process_column"

\* C19: removeFlow(name) fails, changing nothing, when the trimmed name is
\* not a row; otherwise it deletes that row and that name's unit entry and
\* leaves the other rows with their cells and order, the processes and the
\* transformity table as they were.  removeProcess(name) does the same for
\* a column: the other columns keep their cells and order, the flows stay.
C19_RemoveDeletesOnlyThat ==
    [][LET name == Strip(args'[1])
           K == Kept(lci_index, name)
           C == Kept(lci_columns, name)
       IN  /\ (FlowRemoval /\ name \notin Range(lci_index)) =>
                 ~ret' /\ store' = store
           /\ (FlowRemoval /\ name \in Range(lci_index)) =>
                 /\ ret'
                 /\ Len(lci_index') = Cardinality(K)
                 /\ Len(lci_data') = Cardinality(K)
                 /\ \A i \in K : /\ lci_index'[Rank(i, K)] = lci_index[i]
                                 /\ lci_data'[Rank(i, K)] = lci_data[i]
                 /\ UnitsWithout(name)
                 /\ lci_columns' = lci_columns
                 /\ transformities' = transformities
           /\ (ProcessRemoval /\ name \notin Range(lci_columns)) =>
                 ~ret' /\ store' = store
           /\ (ProcessRemoval /\ name \in Range(lci_columns)) =>
                 /\ ret'
                 /\ Len(lci_columns') = Cardinality(C)
                 /\ \A j \in C : lci_columns'[Rank(j, C)] = lci_columns[j]
                 /\ lci_index' = lci_index
                 /\ Len(lci_data') = Len(lci_data)
                 /\ \A i \in 1..Len(lci_data) :
                       /\ Len(lci_data'[i]) = Cardinality(C)
                       /\ \A j \in C : lci_data'[i][Rank(j, C)] = lci_data[i][j]
                 /\ UnitsWithout(name)
                 /\ transformities' = transformities
      ]_vars

\* C19 witness: of the rows Sun and sun over two processes, Sun was removed
\* under a padded name; the row sun is left with its set cell, both
\* processes and the table entry are still there.
C19_Witness ==
    /\ lastCall = "remove_lci_input_flow" /\ ret
    /\ args = <<SunPadded>>
    /\ lci_index = <<sun>>
    /\ Len(lci_columns) = 2
    /\ lci_data[1][2] = Fin(100)
    /\ Sun \notin DOMAIN lci_units /\ sun \in DOMAIN lci_units
    /\ Sun \in DOMAIN transformities

\* ------------------------------------------------------------------------
\* Claims about the add / remove round trip (SpecRoundTrip)
\* ------------------------------------------------------------------------

\* the remove call undoes the recorded add call: it removes, from the same
\* axis, the name that call added
UndoesTheAdd ==
    /\ before.stage = "removed"
    /\ before.fresh
    /\ Strip(args[1]) = before.name
    /\ \/ lastCall = "remove_lci_input_flow" /\ before.call = "add_lci_input_flow"
       \/ lastCall = "remove_lci_process_column"
          /\ before.call = "add_lci_process_column"

ModeKeys(t) ==
    CASE t = TOTAL_EMERGY -> {K_EMERGY, K_TOTAL}
      [] t = DIRECT_INPUTS_SUM -> {K_SUM}
      [] t = EMERGY_INDICES -> {K_EYR, K_ELR, K_ESI}

Outputs(bundle) == DOMAIN bundle \ {K_SUMMARY}

\* a step that is a call of calculate_emergy: every call step sets lastCall
\* and hands the last call on to prevCall
CallStep == prevCall' # prevCall \/ lastCall' # lastCall \/ ret' # ret
               \/ results' # results \/ messagebox' # messagebox

\* C12: the bundle never mixes two runs.  A call in one of the three modes
\* leaves a bundle whose summary is that of this call and whose outputs are
\* those of this call's mode only, all of them after a success and none
\* after a failure, computed on the store and the bag of this call; any
\* other step leaves the bundle as it is.
C12_BundleOfOneRun ==
    [][IF lastCall' \in {TOTAL_EMERGY, DIRECT_INPUTS_SUM, EMERGY_INDICES} /\ CallStep
       THEN /\ results'[K_SUMMARY][1].type = lastCall'
            /\ ret' => Outputs(results') = ModeKeys(lastCall')
            /\ ~ret' => Outputs(results') = {}
            /\ (ret' /\ lastCall' = TOTAL_EMERGY) =>
                  /\ results'[K_EMERGY].index = lci_index
                  /\ results'[K_EMERGY].columns = lci_columns
                  /\ results'[K_TOTAL].index = lci_columns
            /\ (ret' /\ lastCall' = DIRECT_INPUTS_SUM) =>
                  results'[K_SUM].index = lci_columns
            /\ (ret' /\ lastCall' = EMERGY_INDICES) =>
                  /\ results'[K_EYR] = Format2e(frame'.eyr)
                  /\ results'[K_ELR] = Format2e(frame'.elr)
                  /\ results'[K_ESI] = Format2e(frame'.esi)
       ELSE results' = results
      ]_vars

\* C12 witness: a successful total-emergy run was followed by an indices
\* run that failed; the bundle holds the summary of the indices run and
\* nothing of the total-emergy run.
C12_Witness ==
    /\ prevCall = [call |-> TOTAL_EMERGY, ret |-> TRUE]
    /\ lastCall = EMERGY_INDICES /\ ~ret
    /\ lci_index # <<>> /\ lci_columns # <<>>
    /\ DOMAIN results = {K_SUMMARY}
    /\ results[K_SUMMARY][1].type = EMERGY_INDICES

\* ------------------------------------------------------------------------
\* Claims about refused calls (Spec)
\* ------------------------------------------------------------------------

\* the operations that validate their arguments against the store
ValidatingCalls ==
    {"add_lci_input_flow", "add_lci_process_column", "set_lci_value",
     "remove_lci_input_flow", "remove_lci_process_column",
     "add_transformity", "remove_transformity"}

\* C21: a call of a store operation that returns False (empty or duplicate
\* name, unknown flow or process, unparseable number, absent name) leaves
\* the matrix, the unit map and the transformity table exactly as they
\* were; a rejected duplicate add keeps the unit of the existing entry.
C21_RefusedLeavesStore ==
    [][(lastCall' \in ValidatingCalls /\ ~ret') => store' = store]_vars

\* C21 witness: an add of a flow that is already a row was refused as a
\* duplicate while the unit map holds a unit for it that differs from the
\* one the call gave.
C21_Witness ==
    /\ lastCall = "add_lci_input_flow" /\ ~ret
    /\ messagebox = <<[kind |-> "showwarning", title |-> "Fluxo Existente"]>>
    /\ Strip(args[1]) \in Range(lci_index)
    /\ Strip(args[1]) \in DOMAIN lci_units
    /\ lci_units[Strip(args[1])] # Strip(args[2])

\* ------------------------------------------------------------------------
\* Claims about the store under calculations (SpecRuns)
\* ------------------------------------------------------------------------

CalculationModes == {TOTAL_EMERGY, DIRECT_INPUTS_SUM, EMERGY_INDICES}

\* C22: a call of calculate_emergy in any mode, successful or failed, leaves
\* the matrix (names, order, set and unset cells), the unit map and the
\* transformity table as they were; an unset cell stays unset although the
\* computation reads it as 0.
C22_CalculateReadsOnly ==
    [][(lastCall' \in CalculationModes /\ CallStep) => store' = store]_vars

\* C22 witness: the sum of direct inputs was computed over an unset cell,
\* which counted as 0 in the sum and is still unset in the store.
C22_Witness ==
    /\ lastCall = DIRECT_INPUTS_SUM /\ ret
    /\ lci_index = <<Sun>> /\ lci_columns = <<Widget>>
    /\ IsNaN(lci_data[1][1])
    /\ results[K_SUM].data = <<Fin(0)>>

\* C27: set_lci_value returns True exactly when the trimmed flow is a row,
\* the trimmed process is a column and the text parses as a number; then
\* the addressed cell holds the parsed value, whether it was unset or set,
\* and every other cell, both name lists, the unit map and the
\* transformity table are as before.
C27_SetValueFrame ==
    [][lastCall' = "set_lci_value" =>
          LET flow == Strip(args'[1])
              process == Strip(args'[2])
              text == args'[3][1]
          IN  /\ ret' <=> /\ flow \in Range(lci_index)
                          /\ process \in Range(lci_columns)
                          /\ ParsesAsFloat(text)
              /\ ret' =>
                    /\ \A i \in 1..Len(lci_index) : \A j \in 1..Len(lci_columns) :
                          lci_data'[i][j] =
                              IF lci_index[i] = flow /\ lci_columns[j] = process
                              THEN ParseFloat(text) ELSE lci_data[i][j]
                    /\ UNCHANGED <<lci_index, lci_columns, lci_units, transformities>>
      ]_vars

\* C27 witness: the cell of Sun and Widget was set to 100 by a call naming
\* the flow ' Sun', beside a second process and a second flow whose cells
\* are as they were, one of them set to an infinite value and one unset.
C27_Witness ==
    /\ lastCall = "set_lci_value" /\ ret
    /\ args = <<SunPadded, Widget, <<"100">>>>
    /\ lci_index = <<Sun, sun>> /\ lci_columns = <<Widget, Sun>>
    /\ lci_data = <<<<Fin(100), NaN>>, <<PosInf, NaN>>>>

\* C28: adding or removing a member of one axis never changes or deletes
\* the unit of a member of the other axis: get_lci_unit of every flow of
\* the matrix is the same after an add or a remove of a process as before
\* it, and get_lci_unit of every process is the same after an add or a
\* remove of a flow, also when the two have the same name.
C28_UnitsOfOtherAxisKept ==
    [][/\ lastCall' \in {"add_lci_process_column", "remove_lci_process_column"} =>
            \A fn \in Range(lci_index) : get_lci_unit(fn)' = get_lci_unit(fn)
       /\ lastCall' \in {"add_lci_input_flow", "remove_lci_input_flow"} =>
            \A pn \in Range(lci_columns) : get_lci_unit(pn)' = get_lci_unit(pn)
      ]_vars

\* ------------------------------------------------------------------------
\* Claims about sessions saved and loaded (SpecSessions)
\* ------------------------------------------------------------------------

\* C23: a load that fails leaves the store as it was: the matrix, the unit
\* map and the transformity table all keep their contents of before the
\* load.
C23_FailedLoadLeavesStore ==
    [][(lastCall' = "load_data_from_json" /\ ~ret') => store' = store]_vars

\* C24: a load of the file that the call just before it saved leaves the
\* store as it was at the save: the same flow and process names in the
\* same order, the same value in every set cell, the same cells unset, the
\* same unit map and transformity table.
C24_SaveLoadRoundTrip ==
    [][(/\ lastCall = "save_data_to_json" /\ ret
        /\ lastCall' = "load_data_from_json" /\ args' = args)
       => store' = store]_vars

\* C24 witness: a store with two flows and no process was saved and then
\* loaded from the file just written.
C24_Witness ==
    /\ prevCall = [call |-> "save_data_to_json", ret |-> TRUE]
    /\ lastCall = "load_data_from_json" /\ ret
    /\ args[1] \in DOMAIN disk
    /\ disk[args[1]] = data_to_save
    /\ Len(lci_index) = 2 /\ lci_columns = <<>>
    /\ lci_units # EmptyDict

\* the file a load call was given
Loaded(filepath) == (disk @@ SessionFiles)[filepath]

\* a text cell that is not the text of a number
NonNumeric(cell) == cell.json = "string" /\ ~ParsesAsFloat(cell.text)

WellFormed(file) ==
    /\ has_matrix_part(file)
    /\ Len(file.lci_data.data) = Len(file.lci_data.index)
    /\ \A i \in 1..Len(file.lci_data.data) :
          Len(file.lci_data.data[i]) = Len(file.lci_data.columns)
    /\ \A j, k \in 1..Len(file.lci_data.columns) :
          file.lci_data.columns[j] = file.lci_data.columns[k] => j = k

HasNonNumericCell(file) ==
    \E i \in 1..Len(file.lci_data.data) :
        \E j \in 1..Len(file.lci_data.data[i]) :
            NonNumeric(file.lci_data.data[i][j])

\* C25: a load of a file whose matrix part is a well-formed frame with a
\* non-numeric cell succeeds: the row and column names are those of the
\* file, every non-numeric cell is unset and every numeric cell has the
\* recorded value.
C25_NonNumericCellUnset ==
    [][(/\ lastCall' = "load_data_from_json"
        /\ WellFormed(Loaded(args'[1]))
        /\ HasNonNumericCell(Loaded(args'[1])))
       => LET m == Loaded(args'[1]).lci_data
          IN  /\ ret'
              /\ lci_index' = m.index
              /\ lci_columns' = m.columns
              /\ \A i \in 1..Len(m.index) : \A j \in 1..Len(m.columns) :
                    /\ NonNumeric(m.data[i][j]) => IsNaN(lci_data'[i][j])
                    /\ m.data[i][j].json = "number" =>
                          lci_data'[i][j] = m.data[i][j].value
      ]_vars

\* C25 witness: the file with the text cell 'abc' in the row of Sun and the
\* number 100 in the row of 'A B' was loaded.
C25_Witness ==
    /\ lastCall = "load_data_from_json" /\ ret
    /\ args = <<<<"text_cell">>>>
    /\ lci_index = <<Sun, A_sp_B>> /\ lci_columns = <<Widget>>
    /\ lci_data = <<<<NaN>>, <<Fin(100)>>>>

\* ------------------------------------------------------------------------
\* Claims about the transformity table (SpecTable)
\* ------------------------------------------------------------------------

OneEntryPerTrimmedName(table) ==
    \A k1, k2 \in DOMAIN table : Strip(k1) = Strip(k2) => k1 = k2

====
